---- MODULE Spec2Model ----
(***************************************************************************)
(* AstraNode knowledge-graph core: the paper analyzers' similarity and     *)
(* connection finder (utils/paperAnalyzer.js, the demo analyzer), the      *)
(* graph builder (clustering, centrality) and the GraphRAG query engine    *)
(* (utils/graphRAG.js).                                                    *)
(*                                                                         *)
(* Text is a sequence of one-character strings.  Real numbers are fixed    *)
(* point: similarities, strengths and centralities are integers in units   *)
(* of 1/1000 (300 is 0.3), truncated; relevance scores are in the same     *)
(* unit.  JavaScript's NaN is the value NaN below (a number no real        *)
(* result takes: every real result here is at least 0): arithmetic with it *)
(* gives NaN and every ordering comparison with it is false.               *)
(***************************************************************************)
EXTENDS Integers, Sequences, FiniteSets, TLC

    \* PaperAnalyzer / DemoAnalyzer
VARIABLES
    simPhase,      \* "idle" | "input" | "connected" | "calculated"
    analyzer,      \* which analyzer ran: "none" | "PaperAnalyzer" | "DemoAnalyzer"
    papersIn,      \* the analyzed papers handed to the analyzer
    connections,   \* what findConnections returned
    simMatrix      \* calculateSimilarity of every ordered pair of papersIn

    \* GraphBuilder.buildGraph(papers, connections)
VARIABLES
    buildPhase,    \* "idle" | "input" | "built"
    gbPapers,      \* buildGraph's papers
    gbConnections, \* buildGraph's connections
    graph          \* what buildGraph returned: [nodes, links, stats]

    \* the GraphRAG instance (module.exports = new GraphRAG())
VARIABLES
    openai,        \* TRUE iff an OpenAI client is configured (this.openai)
    graphData,     \* this.graphData: null or the graph last set
    ragPapers,     \* this.papers
    embeddings     \* this.embeddings: cache key -> embedding

    \* GraphRAG.findResearchPaths(startPaperId, endPaperId, maxHops)
VARIABLES
    pathPhase,     \* "idle" | "done"
    pathArgs,      \* [startId, endId, maxHops] of the call
    paths          \* what the call returned

    \* one GraphRAG.queryGraph(query, options) call
VARIABLES
    qPhase,        \* "idle" | "embedding" | "insights" | "done" | "rejected" | "suspended"
    qArgs,         \* [query, maxResults, includeConnections, useGraphStructure]
    qEmbed,        \* embeddingBasedSearch's locals while it awaits getEmbedding
    qCandidates,   \* what semanticSearch returned, as it was when it returned
    qExpanded,     \* expandedResults
    qFailures,     \* the provider calls of this query that failed
    qResult        \* the Query Result the call resolved with

    \* one PaperAnalyzer.extractConcepts(papers) run
VARIABLES
    exPhase,        \* "idle" | "input" | "calling" | "delay" | "done" | "suspended"
    exPapers,       \* the papers handed in
    exIndex,        \* i, the start of the current batch
    analyzedPapers, \* analyzedPapers
    exOutcomes,     \* how the provider call of each batch so far ended
    exEvents        \* the provider calls and delays of the run, in order

\* a direct call of a GraphBuilder or GraphRAG function on the data at hand
VARIABLES
    lastCall,      \* noCall or [op, ...] with the arguments of the call
    lastReturn,    \* what the call returned
    callTrace      \* what the call did on the way (the ids it put in its queue)

simVars == <<simPhase, analyzer, papersIn, connections, simMatrix>>

buildVars == <<buildPhase, gbPapers, gbConnections, graph>>

ragVars == <<openai, graphData, ragPapers, embeddings>>

pathVars == <<pathPhase, pathArgs, paths>>

queryVars == <<qPhase, qArgs, qEmbed, qCandidates, qExpanded, qFailures, qResult>>

extractVars == <<exPhase, exPapers, exIndex, analyzedPapers, exOutcomes, exEvents>>

callVars == <<lastCall, lastReturn, callTrace>>

vars == <<simVars, buildVars, ragVars, pathVars, queryVars, extractVars, callVars>>

-----------------------------------------------------------------------------
(* Numbers *)

\* the result of 0 / 0
NaN == -1

IsNaN(x) == x = NaN

\* a + b in JavaScript: NaN if either operand is NaN
Plus(a, b) == IF IsNaN(a) \/ IsNaN(b) THEN NaN ELSE a + b

\* a > b in JavaScript: false if either operand is NaN
Gt(a, b) == IF IsNaN(a) \/ IsNaN(b) THEN FALSE ELSE a > b

\* Math.min(a, b): NaN if either operand is NaN
MathMin(a, b) == IF IsNaN(a) \/ IsNaN(b) THEN NaN ELSE IF a < b THEN a ELSE b

Max2(a, b) == IF a > b THEN a ELSE b

\* n / d in units of 1/1000; 0 / 0 is NaN (d is never 0 with n > 0 below)
Div(n, d) == IF d = 0 THEN NaN ELSE (n * 1000) \div d

\* the largest r in lo..hi with r * r <= n (lo * lo <= n), by bisection
RECURSIVE ISqrtBetween(_, _, _)
ISqrtBetween(n, lo, hi) ==
    IF lo >= hi THEN lo
    ELSE LET mid == (lo + hi + 1) \div 2
         IN  IF mid * mid <= n THEN ISqrtBetween(n, mid, hi)
                               ELSE ISqrtBetween(n, lo, mid - 1)

\* the integer square root, rounded down (46340 squared is the largest
\* square a 32-bit integer holds)
ISqrt(n) == ISqrtBetween(n, 0, IF n < 46340 THEN n ELSE 46340)

-----------------------------------------------------------------------------
(* Text *)

toLowerCaseChar ==
    ("A" :> "a") @@ ("B" :> "b") @@ ("C" :> "c") @@ ("D" :> "d") @@ ("E" :> "e") @@
    ("F" :> "f") @@ ("G" :> "g") @@ ("H" :> "h") @@ ("I" :> "i") @@ ("J" :> "j") @@
    ("K" :> "k") @@ ("L" :> "l") @@ ("M" :> "m") @@ ("N" :> "n") @@ ("O" :> "o") @@
    ("P" :> "p") @@ ("Q" :> "q") @@ ("R" :> "r") @@ ("S" :> "s") @@ ("T" :> "t") @@
    ("U" :> "u") @@ ("V" :> "v") @@ ("W" :> "w") @@ ("X" :> "x") @@ ("Y" :> "y") @@
    ("Z" :> "z")

\* String.prototype.toLowerCase
toLowerCase(s) ==
    [i \in 1..Len(s) |-> IF s[i] \in DOMAIN toLowerCaseChar
                         THEN toLowerCaseChar[s[i]] ELSE s[i]]

\* \s of a regular expression (the texts here hold no other white space)
IsSpace(c) == c = " "

\* \w of a regular expression
IsWordChar(c) ==
    c \in { "a", "b", "c", "d", "e", "f", "g", "h", "i", "j", "k", "l", "m",
            "n", "o", "p", "q", "r", "s", "t", "u", "v", "w", "x", "y", "z",
            "A", "B", "C", "D", "E", "F", "G", "H", "I", "J", "K", "L", "M",
            "N", "O", "P", "Q", "R", "S", "T", "U", "V", "W", "X", "Y", "Z",
            "0", "1", "2", "3", "4", "5", "6", "7", "8", "9", "_" }

\* s.replace(/[^\w\s]/g, ' ')
stripPunctuation(s) ==
    [i \in 1..Len(s) |-> IF IsWordChar(s[i]) \/ IsSpace(s[i]) THEN s[i] ELSE " "]

\* the index of the first white space of s at or after i, Len(s) + 1 if none
RECURSIVE NextSpace(_, _)
NextSpace(s, i) ==
    IF i > Len(s) \/ IsSpace(s[i]) THEN i ELSE NextSpace(s, i + 1)

\* the index of the first character of s at or after i that is no white space
RECURSIVE SkipSpaces(_, _)
SkipSpaces(s, i) ==
    IF i > Len(s) \/ ~IsSpace(s[i]) THEN i ELSE SkipSpaces(s, i + 1)

\* s.split(/\s+/): leading or trailing white space gives an empty first or
\* last piece, and the empty string splits into one empty piece
RECURSIVE splitWhitespace(_)
splitWhitespace(s) ==
    LET i == NextSpace(s, 1)
    IN  IF i > Len(s)
        THEN <<s>>
        ELSE <<SubSeq(s, 1, i - 1)>>
             \o splitWhitespace(SubSeq(s, SkipSpaces(s, i), Len(s)))

\* words.join(' ')
RECURSIVE joinSpace(_)
joinSpace(words) ==
    IF words = <<>> THEN <<>>
    ELSE IF Len(words) = 1 THEN words[1]
    ELSE words[1] \o <<" ">> \o joinSpace(Tail(words))

Range(s) == { s[i] : i \in 1..Len(s) }

\* [...new Set(s)]: the first occurrence of every element, in order
RECURSIVE uniqueInOrder(_)
uniqueInOrder(s) ==
    IF s = <<>> THEN <<>>
    ELSE LET init == uniqueInOrder(SubSeq(s, 1, Len(s) - 1))
             last == s[Len(s)]
         IN  IF last \in Range(init) THEN init ELSE Append(init, last)

\* Array.prototype.slice(0, n)
sliceTo(s, n) == SubSeq(s, 1, IF n < Len(s) THEN n ELSE Len(s))

\* the records of s left in the order they came
unsorted(s) == s

\* the records of s ordered by strength, largest first; equal strengths
\* keep their order (Array.prototype.sort is stable)
RECURSIVE sortByStrengthDesc(_)
sortByStrengthDesc(s) ==
    IF s = <<>> THEN <<>>
    ELSE LET strengths == { s[k].strength : k \in 1..Len(s) }
             top       == CHOOSE v \in strengths : \A w \in strengths : v >= w
         IN  SelectSeq(s, LAMBDA c : c.strength = top)
             \o sortByStrengthDesc(SelectSeq(s, LAMBDA c : c.strength /= top))

-----------------------------------------------------------------------------
(* Words, titles, concept lists and domains the papers are drawn from *)

wBone  == <<"b", "o", "n", "e">>
wBoneC == <<"B", "o", "n", "e">>
wCell  == <<"c", "e", "l", "l">>
wLoss  == <<"l", "o", "s", "s">>
wThe   == <<"t", "h", "e">>
dBio   == <<"B", "i", "o">>
dMed   == <<"M", "e", "d">>

Titles == { joinSpace(<<wBoneC, wLoss>>), joinSpace(<<wThe, wBone, wCell>>) }

ConceptLists == { <<>>, <<wBone>>, <<wBoneC, wCell>> }

Domains == { dBio, dMed }

\* an analyzed paper without its id
Profiles ==
    [title : Titles, concepts : ConceptLists, domain : Domains]

\* the largest number of papers handed to an analyzer
MaxPapers == 3

\* paper lists with pairwise distinct ids (a paper's id is its position)
PaperLists ==
    UNION { { [i \in 1..n |-> [id |-> i, title |-> f[i].title,
                               concepts |-> f[i].concepts, domain |-> f[i].domain]]
              : f \in [1..n -> Profiles] } : n \in 0..MaxPapers }

-----------------------------------------------------------------------------
(* PaperAnalyzer and DemoAnalyzer: similarity and connections *)

stopWordsPaperAnalyzer ==
    { <<"t", "h", "e">>, <<"a", "n", "d">>, <<"f", "o", "r">>, <<"a", "r", "e">>,
      <<"b", "u", "t">>, <<"n", "o", "t">>, <<"y", "o", "u">>, <<"a", "l", "l">>,
      <<"c", "a", "n">>, <<"h", "a", "d">>, <<"h", "e", "r">>, <<"w", "a", "s">>,
      <<"o", "n", "e">>, <<"o", "u", "r">>, <<"o", "u", "t">>, <<"d", "a", "y">>,
      <<"g", "e", "t">>, <<"h", "a", "s">>, <<"h", "i", "m">>, <<"h", "i", "s">>,
      <<"h", "o", "w">>, <<"m", "a", "n">>, <<"n", "e", "w">>, <<"n", "o", "w">>,
      <<"o", "l", "d">>, <<"s", "e", "e">>, <<"t", "w", "o">>, <<"w", "a", "y">>,
      <<"w", "h", "o">>, <<"b", "o", "y">>, <<"d", "i", "d">>, <<"i", "t", "s">>,
      <<"l", "e", "t">>, <<"p", "u", "t">>, <<"s", "a", "y">>, <<"s", "h", "e">>,
      <<"t", "o", "o">>, <<"u", "s", "e">> }

isStopWord(word) == toLowerCase(word) \in stopWordsPaperAnalyzer

\* new Set(paper.concepts.map(c => c.toLowerCase())), in insertion order
lowerConcepts(paper) ==
    uniqueInOrder([i \in 1..Len(paper.concepts) |-> toLowerCase(paper.concepts[i])])

\* [...concepts1].filter(c => concepts2.has(c))
getSharedConcepts(paper1, paper2) ==
    SelectSeq(lowerConcepts(paper1), LAMBDA c : c \in Range(lowerConcepts(paper2)))

\* intersection.size / union.size: 0 / 0 when neither paper has a concept
jaccardSim(paper1, paper2) ==
    LET concepts1 == Range(lowerConcepts(paper1))
        concepts2 == Range(lowerConcepts(paper2))
    IN  Div(Cardinality(concepts1 \cap concepts2), Cardinality(concepts1 \cup concepts2))

domainBonusPaperAnalyzer == 200
domainBonusDemo == 300
titleWeightPaperAnalyzer == 300
titleWeightDemo == 200

\* the title's words of more than 2 characters that are no stop words,
\* each with the number of times it occurs
getTitleVector(title) ==
    LET words == SelectSeq(splitWhitespace(stripPunctuation(toLowerCase(title))),
                           LAMBDA w : Len(w) > 2 /\ ~isStopWord(w))
    IN  [w \in Range(words) |-> Cardinality({ i \in 1..Len(words) : words[i] = w })]

RECURSIVE SumOver(_, _)
SumOver(f, S) ==
    IF S = {} THEN 0
    ELSE LET x == CHOOSE y \in S : TRUE IN f[x] + SumOver(f, S \ {x})

\* dotProduct / (Math.sqrt(norm1) * Math.sqrt(norm2)) || 0
cosineSimilarityTitles(vec1, vec2) ==
    LET allKeys == DOMAIN vec1 \cup DOMAIN vec2
        val1 == [k \in allKeys |-> IF k \in DOMAIN vec1 THEN vec1[k] ELSE 0]
        val2 == [k \in allKeys |-> IF k \in DOMAIN vec2 THEN vec2[k] ELSE 0]
        dotProduct == SumOver([k \in allKeys |-> val1[k] * val2[k]], allKeys)
        norm1 == SumOver([k \in allKeys |-> val1[k] * val1[k]], allKeys)
        norm2 == SumOver([k \in allKeys |-> val2[k] * val2[k]], allKeys)
    IN  IF norm1 * norm2 = 0 THEN 0
        ELSE ISqrt((dotProduct * dotProduct * 1000000) \div (norm1 * norm2))

titleSimPaperAnalyzer(paper1, paper2) ==
    (cosineSimilarityTitles(getTitleVector(paper1.title), getTitleVector(paper2.title))
        * titleWeightPaperAnalyzer) \div 1000

\* the share of the larger title's words that both titles hold, times 0.2
titleSimDemoFirst(paper1, paper2) ==
    LET title1Words == Range(splitWhitespace(toLowerCase(paper1.title)))
        title2Words == Range(splitWhitespace(toLowerCase(paper2.title)))
    IN  (Div(Cardinality(title1Words \cap title2Words), Cardinality(title1Words))
            * titleWeightDemo) \div 1000

titleSimDemo(paper1, paper2) ==
    LET title1Words == Range(splitWhitespace(toLowerCase(paper1.title)))
        title2Words == Range(splitWhitespace(toLowerCase(paper2.title)))
    IN  (Div(Cardinality(title1Words \cap title2Words),
             Max2(Cardinality(title1Words), Cardinality(title2Words)))
            * titleWeightDemo) \div 1000

domainBonus(variant, paper1, paper2) ==
    IF paper1.domain = paper2.domain
    THEN (IF variant = "PaperAnalyzer" THEN domainBonusPaperAnalyzer ELSE domainBonusDemo)
    ELSE 0

titleSim(variant, paper1, paper2) ==
    IF variant = "PaperAnalyzer"
    THEN titleSimPaperAnalyzer(paper1, paper2)
    ELSE titleSimDemo(paper1, paper2)

\* PaperAnalyzer: jaccardSim + domainBonus + titleSim
\* DemoAnalyzer:  Math.min(1.0, jaccardSim + domainBonus + titleSim)
calculateSimilarity(variant, paper1, paper2) ==
    LET sum == Plus(Plus(jaccardSim(paper1, paper2), domainBonus(variant, paper1, paper2)),
                    titleSim(variant, paper1, paper2))
    IN  IF variant = "PaperAnalyzer" THEN sum ELSE MathMin(1000, sum)

thresholdPaperAnalyzer == 300
thresholdDemo == 200
maxConnectionsPaperAnalyzer == 500
maxConnectionsDemo == 300

threshold(variant) ==
    IF variant = "PaperAnalyzer" THEN thresholdPaperAnalyzer ELSE thresholdDemo

maxConnections(variant) ==
    IF variant = "PaperAnalyzer" THEN maxConnectionsPaperAnalyzer ELSE maxConnectionsDemo

\* the index pairs with j starting at i: every paper also paired with itself
RECURSIVE PairIndicesFromSelf(_)
PairIndicesFromSelf(n) ==
    IF n = 0 THEN <<>>
    ELSE LET shifted == PairIndicesFromSelf(n - 1)
         IN  [j \in 1..n |-> <<1, j>>]
             \o [k \in 1..Len(shifted) |-> <<shifted[k][1] + 1, shifted[k][2] + 1>>]

\* the index pairs the two loops visit, in order: i from 1, j from i + 1
RECURSIVE PairIndices(_)
PairIndices(n) ==
    IF n = 0 THEN <<>>
    ELSE LET shifted == PairIndices(n - 1)
         IN  [j \in 1..(n - 1) |-> <<1, j + 1>>]
             \o [k \in 1..Len(shifted) |-> <<shifted[k][1] + 1, shifted[k][2] + 1>>]

\* the pairs whose similarity exceeds the threshold, strongest first, capped
findConnections(variant, papers) ==
    LET pairs == PairIndices(Len(papers))
        all   == [k \in 1..Len(pairs) |->
                    [source |-> papers[pairs[k][1]].id,
                     target |-> papers[pairs[k][2]].id,
                     strength |-> calculateSimilarity(variant, papers[pairs[k][1]],
                                                      papers[pairs[k][2]]),
                     sharedConcepts |-> getSharedConcepts(papers[pairs[k][1]],
                                                          papers[pairs[k][2]])]]
        found  == SelectSeq(all, LAMBDA c : Gt(c.strength, threshold(variant)))
        sorted == sortByStrengthDesc(found)
    IN  sliceTo(sorted, maxConnections(variant))

Analyzers == { "PaperAnalyzer", "DemoAnalyzer" }

\* no direct call is made
noCall == [op |-> "none"]

IdleCalls ==
    /\ lastCall = noCall
    /\ lastReturn = <<>>
    /\ callTrace = <<>>

\* no analyzer call is made
IdleSim ==
    /\ simPhase = "idle"
    /\ analyzer = "none"
    /\ papersIn = <<>>
    /\ connections = <<>>
    /\ simMatrix = <<>>

InitSim ==
    /\ simPhase = "input"
    /\ analyzer = "none"
    /\ papersIn \in PaperLists
    /\ connections = <<>>
    /\ simMatrix = <<>>

\* analyzer.findConnections(papers)
FindConnections(variant) ==
    /\ simPhase = "input"
    /\ simPhase' = "connected"
    /\ analyzer' = variant
    /\ connections' = findConnections(variant, papersIn)
    /\ UNCHANGED <<papersIn, simMatrix>>
    /\ UNCHANGED <<buildVars, ragVars, pathVars, queryVars, extractVars, callVars>>

\* analyzer.calculateSimilarity(a, b) of every ordered pair of the papers
CalculateSimilarity(variant) ==
    /\ simPhase = "input"
    /\ simPhase' = "calculated"
    /\ analyzer' = variant
    /\ simMatrix' = [i \in 1..Len(papersIn) |-> [j \in 1..Len(papersIn) |->
                        calculateSimilarity(variant, papersIn[i], papersIn[j])]]
    /\ UNCHANGED <<papersIn, connections>>
    /\ UNCHANGED <<buildVars, ragVars, pathVars, queryVars, extractVars, callVars>>

NextSim ==
    \/ \E variant \in Analyzers : FindConnections(variant)
    \/ \E variant \in Analyzers : CalculateSimilarity(variant)

-----------------------------------------------------------------------------
(* Properties of the analyzers *)

EndPoints(edge) == { edge.source, edge.target }

\* C8: findConnections over papers with pairwise distinct ids returns no
\* edge from a paper to itself and no two edges joining the same two papers
\* (both analyzers).
C8_NoSelfEdgeNoDuplicatePair ==
    simPhase = "connected" =>
        /\ \A k \in 1..Len(connections) : connections[k].source /= connections[k].target
        /\ \A k, l \in 1..Len(connections) :
                k /= l => EndPoints(connections[k]) /= EndPoints(connections[l])

C8_Witness ==
    /\ simPhase = "connected"
    /\ Len(papersIn) = 3
    /\ Len(connections) = 3

\* C9: calculateSimilarity gives the same value for (a, b) and for (b, a)
\* (both analyzers).
C9_SimilaritySymmetric ==
    simPhase = "calculated" =>
        \A i, j \in 1..Len(papersIn) : simMatrix[i][j] = simMatrix[j][i]

C9_Witness ==
    /\ simPhase = "calculated"
    /\ analyzer = "DemoAnalyzer"
    /\ \E i, j \in 1..Len(papersIn) :
            /\ papersIn[i].title /= papersIn[j].title
            /\ papersIn[i].concepts /= papersIn[j].concepts
            /\ papersIn[i].domain /= papersIn[j].domain
            /\ simMatrix[i][j] > 0

\* what C10 expects of two papers without concepts: the Jaccard term is 0
ExpectedWithoutConcepts(variant, paper1, paper2) ==
    LET sum == domainBonus(variant, paper1, paper2) + titleSim(variant, paper1, paper2)
    IN  IF variant = "PaperAnalyzer" THEN sum ELSE IF sum > 1000 THEN 1000 ELSE sum

\* C10: for two papers that both have no concepts the Jaccard term is 0: the
\* similarity is the domain bonus plus the title component, and
\* findConnections keeps the pair whenever that sum exceeds the threshold.
C10_EmptyConceptsJaccardZero ==
    /\ simPhase = "calculated" =>
          \A i, j \in 1..Len(papersIn) :
              (i /= j /\ papersIn[i].concepts = <<>> /\ papersIn[j].concepts = <<>>)
                  => simMatrix[i][j] = ExpectedWithoutConcepts(analyzer, papersIn[i], papersIn[j])
    /\ simPhase = "connected" =>
          \A i, j \in 1..Len(papersIn) :
              ( /\ i < j
                /\ papersIn[i].concepts = <<>> /\ papersIn[j].concepts = <<>>
                /\ ExpectedWithoutConcepts(analyzer, papersIn[i], papersIn[j])
                       > threshold(analyzer) )
                  => \E k \in 1..Len(connections) :
                         /\ connections[k].source = papersIn[i].id
                         /\ connections[k].target = papersIn[j].id

-----------------------------------------------------------------------------
(* The papers and connections a graph is built from *)

\* the largest number of papers of a graph, and of its connections
MaxNodes == 4
MaxLinks == 3

catalogTitles ==
    << joinSpace(<<wBoneC, wLoss>>), joinSpace(<<wThe, wBone, wCell>>), wCell >>

catalogConcepts == << <<wBone>>, <<wBoneC, wCell>>, <<>>, <<wCell>> >>

\* paper i of a graph; its domain is chosen separately (the empty domain is
\* a paper without one: a paper of a failed batch has no domain field)
CatalogPaper(i, domain) ==
    [id |-> i,
     title |-> catalogTitles[((i - 1) % Len(catalogTitles)) + 1],
     concepts |-> catalogConcepts[((i - 1) % Len(catalogConcepts)) + 1],
     domain |-> domain]

\* the strength of the connection of papers i < j under strength table salt
PairStrength(i, j, salt) == 300 + 100 * ((3 * i + 5 * j + 4 * salt) % 7)

Salts == { 0, 1 }

\* connections as findConnections returns them: one per unordered pair, from
\* the earlier paper to the later one, strongest first
ConnectionsOf(n, pairs, salt) ==
    LET all  == PairIndices(n)
        kept == SelectSeq(all, LAMBDA p : p \in pairs)
    IN  sortByStrengthDesc([k \in 1..Len(kept) |->
            [source |-> kept[k][1], target |-> kept[k][2],
             strength |-> PairStrength(kept[k][1], kept[k][2], salt),
             sharedConcepts |-> <<>>]])

PairSets(n) ==
    { pairs \in SUBSET { p \in (1..n) \X (1..n) : p[1] < p[2] } :
        Cardinality(pairs) <= MaxLinks }

-----------------------------------------------------------------------------
(* GraphBuilder *)

typeStrongAbove == 700
typeMediumAbove == 500

getConnectionType(strength) ==
    IF strength > typeStrongAbove THEN "strong"
    ELSE IF strength > typeMediumAbove THEN "medium"
    ELSE "weak"

unknownDomain == <<"U", "n", "k", "n", "o", "w", "n">>

\* x || fallback for a string x (the empty string and undefined are falsy)
OrElse(x, fallback) == IF x = <<>> THEN fallback ELSE x

\* Number.prototype.toString of a natural number
RECURSIVE toDecimal(_)
toDecimal(n) ==
    LET digit == <<"0", "1", "2", "3", "4", "5", "6", "7", "8", "9">>[(n % 10) + 1]
    IN  IF n < 10 THEN <<digit>> ELSE Append(toDecimal(n \div 10), digit)

\* the degree of id when only the links leaving it count
degreeBySourceOnly(links, id) ==
    Cardinality({ k \in 1..Len(links) : links[k].source = id })

\* degreeMap.get(id) || 0: a link counts once for its source and once for
\* its target
degreeOf(links, id) ==
    Cardinality({ k \in 1..Len(links) : links[k].source = id })
    + Cardinality({ k \in 1..Len(links) : links[k].target = id })

\* adjacencyList.get(id): the neighbours of id in the order the links add them
adjacencyOf(links, id) ==
    LET incident == SelectSeq(links, LAMBDA l : l.source = id \/ l.target = id)
    IN  uniqueInOrder([k \in 1..Len(incident) |->
            IF incident[k].source = id THEN incident[k].target ELSE incident[k].source])

\* dfs(nodeId, adjacencyList, visited, component): <<visited, component>> after
\* the call; dfsNeighbors is its forEach over the neighbours from the k-th on
RECURSIVE dfs(_, _, _, _), dfsNeighbors(_, _, _, _, _)
dfs(nodeId, links, visited, component) ==
    dfsNeighbors(adjacencyOf(links, nodeId), 1, links,
                 visited \cup {nodeId}, Append(component, nodeId))

dfsNeighbors(neighbors, k, links, visited, component) ==
    IF k > Len(neighbors) THEN <<visited, component>>
    ELSE IF neighbors[k] \in visited
         THEN dfsNeighbors(neighbors, k + 1, links, visited, component)
         ELSE LET r == dfs(neighbors[k], links, visited, component)
              IN  dfsNeighbors(neighbors, k + 1, links, r[1], r[2])

\* the domain of the node the traversal starts from
domainOfFirstNode(nodes, component) ==
    (CHOOSE n \in Range(nodes) : n.id = component[1]).domain

\* [...domainCounts.entries()].sort((a, b) => b[1] - a[1])[0][0]: the domain
\* counted most often among the component's nodes, the first one counted on a tie
dominantDomainOf(nodes, component) ==
    LET domainOf(id) == (CHOOSE n \in Range(nodes) : n.id = id).domain
        domains == uniqueInOrder([k \in 1..Len(component) |-> domainOf(component[k])])
        count(d) == Cardinality({ k \in 1..Len(component) : domainOf(component[k]) = d })
        best == CHOOSE i \in 1..Len(domains) :
                    /\ \A j \in 1..Len(domains) : count(domains[j]) <= count(domains[i])
                    /\ \A j \in 1..(i - 1) : count(domains[j]) < count(domains[i])
    IN  domains[best]

\* `${dominantDomain}-${clusterId}`
clusterLabel(domain, clusterId) == domain \o <<"-">> \o toDecimal(clusterId)

\* the nodes.forEach of performClustering from the k-th node on:
\* the clusters map (node id -> label) it ends with
RECURSIVE clusterFrom(_, _, _, _, _, _)
clusterFrom(nodes, links, k, visited, clusters, clusterId) ==
    IF k > Len(nodes) THEN clusters
    ELSE IF nodes[k].id \in visited
         THEN clusterFrom(nodes, links, k + 1, visited, clusters, clusterId)
         ELSE LET r == dfs(nodes[k].id, links, visited, <<>>)
                  label == clusterLabel(dominantDomainOf(nodes, r[2]), clusterId)
                  assigned == [id \in Range(r[2]) |-> label]
              IN  clusterFrom(nodes, links, k + 1, r[1], assigned @@ clusters,
                              clusterId + 1)

unclustered ==
    <<"u", "n", "c", "l", "u", "s", "t", "e", "r", "e", "d">>

\* every node in a cluster of its own, numbered in node order
clusterEachAlone(nodes, links) ==
    [k \in 1..Len(nodes) |->
        [nodes[k] EXCEPT !.cluster = clusterLabel(nodes[k].domain, k - 1)]]

performClustering(nodes, links) ==
    LET clusters == clusterFrom(nodes, links, 1, {}, <<>>, 0)
    IN  [k \in 1..Len(nodes) |->
            [nodes[k] EXCEPT !.cluster =
                IF nodes[k].id \in DOMAIN clusters THEN clusters[nodes[k].id]
                ELSE unclustered]]

\* Math.max(...nodes.map(n => n.degree)); of no node it is -Infinity, which
\* like 0 fails `maxDegree > 0` (and no node reads it)
maxDegreeOf(nodes) ==
    IF nodes = <<>> THEN 0
    ELSE CHOOSE d \in { nodes[k].degree : k \in 1..Len(nodes) } :
            \A k \in 1..Len(nodes) : nodes[k].degree <= d

\* degree centrality normalised by the number of other nodes
centralityByNodeCount(nodes, node) ==
    IF Len(nodes) > 1 THEN Div(node.degree, Len(nodes) - 1) ELSE 0

\* centrality.get(node.id) after calculateCentrality
calculateCentrality(nodes, node) ==
    LET maxDegree == maxDegreeOf(nodes)
    IN  IF maxDegree > 0 THEN Div(node.degree, maxDegree) ELSE 0

RECURSIVE SumSeq(_)
SumSeq(s) == IF s = <<>> THEN 0 ELSE s[1] + SumSeq(Tail(s))

buildGraph(papers, conns) ==
    LET links == [k \in 1..Len(conns) |->
                    [source |-> conns[k].source,
                     target |-> conns[k].target,
                     strength |-> conns[k].strength,
                     sharedConcepts |-> conns[k].sharedConcepts,
                     type |-> getConnectionType(conns[k].strength)]]
        nodes == [k \in 1..Len(papers) |->
                    [id |-> papers[k].id,
                     title |-> papers[k].title,
                     concepts |-> papers[k].concepts,
                     domain |-> OrElse(papers[k].domain, unknownDomain),
                     degree |-> degreeOf(links, papers[k].id),
                     cluster |-> <<>>]]
        clusteredNodes == performClustering(nodes, links)
        final == [k \in 1..Len(clusteredNodes) |->
                    [id |-> clusteredNodes[k].id,
                     title |-> clusteredNodes[k].title,
                     concepts |-> clusteredNodes[k].concepts,
                     domain |-> clusteredNodes[k].domain,
                     degree |-> clusteredNodes[k].degree,
                     cluster |-> clusteredNodes[k].cluster,
                     centrality |-> calculateCentrality(clusteredNodes, clusteredNodes[k])]]
    IN  [nodes |-> final,
         links |-> links,
         stats |-> [totalNodes |-> Len(final),
                    totalLinks |-> Len(links),
                    averageDegree |->
                        Div(SumSeq([k \in 1..Len(nodes) |-> nodes[k].degree]), Len(nodes)),
                    clusters |-> Cardinality({ final[k].cluster : k \in 1..Len(final) })]]

noGraph == [nodes |-> <<>>, links |-> <<>>, stats |-> <<>>]

BuildDomains == { dBio, <<>> }

\* no graph is built
IdleBuild ==
    /\ buildPhase = "idle"
    /\ gbPapers = <<>>
    /\ gbConnections = <<>>
    /\ graph = noGraph

InitBuild ==
    /\ buildPhase = "input"
    /\ graph = noGraph
    /\ \E n \in 0..MaxNodes : \E doms \in [1..n -> BuildDomains] :
       \E pairs \in PairSets(n) : \E salt \in Salts :
          /\ gbPapers = [i \in 1..n |-> CatalogPaper(i, doms[i])]
          /\ gbConnections = ConnectionsOf(n, pairs, salt)

\* graphBuilder.buildGraph(papers, connections)
BuildGraph ==
    /\ buildPhase = "input"
    /\ buildPhase' = "built"
    /\ graph' = buildGraph(gbPapers, gbConnections)
    /\ UNCHANGED <<gbPapers, gbConnections>>
    /\ UNCHANGED <<simVars, ragVars, pathVars, queryVars, extractVars, callVars>>

NextBuild == BuildGraph

-----------------------------------------------------------------------------
(* Properties of the graph builder *)

\* the nodes joined to the nodes of S by a path of links, S included
RECURSIVE ReachableFrom(_, _)
ReachableFrom(S, links) ==
    LET next == S \cup { links[k].target : k \in { m \in 1..Len(links) : links[m].source \in S } }
                  \cup { links[k].source : k \in { m \in 1..Len(links) : links[m].target \in S } }
    IN  IF next = S THEN S ELSE ReachableFrom(next, links)

SameComponent(a, b, links) == b \in ReachableFrom({a}, links)

IncidentLinks(links, id) ==
    { k \in 1..Len(links) : links[k].source = id \/ links[k].target = id }

\* C5: after buildGraph every node's degree is the number of links of the
\* returned graph that have the node as source or as target.
C5_DegreeCountsIncidentLinks ==
    buildPhase = "built" =>
        \A k \in 1..Len(graph.nodes) :
            graph.nodes[k].degree
                = Cardinality(IncidentLinks(graph.links, graph.nodes[k].id))

C5_Witness ==
    /\ buildPhase = "built"
    /\ Len(graph.links) = 3
    /\ \E k \in 1..Len(graph.nodes) : graph.nodes[k].degree = 3
    /\ \E k \in 1..Len(graph.nodes) : graph.nodes[k].degree = 1

\* C6: every node has exactly one cluster label; two nodes have the same
\* label exactly when they lie in the same connected component; a node
\* without links is alone in its cluster.
C6_ClustersAreComponents ==
    buildPhase = "built" =>
        /\ Len(graph.nodes) = Len(gbPapers)
        /\ \A k \in 1..Len(graph.nodes) :
              /\ graph.nodes[k].id = gbPapers[k].id
              /\ graph.nodes[k].cluster \notin { <<>>, unclustered }
        /\ \A k, l \in 1..Len(graph.nodes) :
              (graph.nodes[k].cluster = graph.nodes[l].cluster)
                  <=> SameComponent(graph.nodes[k].id, graph.nodes[l].id, graph.links)
        /\ \A k, l \in 1..Len(graph.nodes) :
              (k /= l /\ IncidentLinks(graph.links, graph.nodes[k].id) = {})
                  => graph.nodes[k].cluster /= graph.nodes[l].cluster

C6_Witness ==
    /\ buildPhase = "built"
    /\ Len(graph.nodes) = 4
    /\ graph.stats.clusters = 2
    /\ \E k \in 1..4 : IncidentLinks(graph.links, graph.nodes[k].id) = {}
    /\ \E k, l \in 1..4 :
          /\ k /= l
          /\ graph.nodes[k].cluster = graph.nodes[l].cluster
          /\ graph.nodes[k].domain /= graph.nodes[l].domain
          /\ ~\E m \in 1..Len(graph.links) :
                EndPoints(graph.links[m]) = { graph.nodes[k].id, graph.nodes[l].id }

\* C7: after buildGraph every centrality lies in [0, 1]; a node of maximum
\* degree has centrality 1; when the maximum degree is 0 every centrality is 0.
C7_CentralityNormalised ==
    buildPhase = "built" =>
        LET degrees == { graph.nodes[k].degree : k \in 1..Len(graph.nodes) }
        IN  \A k \in 1..Len(graph.nodes) :
                /\ graph.nodes[k].centrality >= 0
                /\ graph.nodes[k].centrality <= 1000
                /\ ( /\ \A d \in degrees : d <= graph.nodes[k].degree
                     /\ graph.nodes[k].degree > 0 )
                      => graph.nodes[k].centrality = 1000
                /\ (\A d \in degrees : d = 0) => graph.nodes[k].centrality = 0

C7_Witness ==
    /\ buildPhase = "built"
    /\ \E k, l, m \in 1..Len(graph.nodes) :
          /\ graph.nodes[k].centrality = 1000
          /\ graph.nodes[l].centrality = 500
          /\ graph.nodes[m].centrality = 0

-----------------------------------------------------------------------------
(* GraphRAG: the instance and its graph data *)

\* this.graphData = null
null == [null |-> TRUE]

\* the instance as the constructor leaves it, but for openai
FreshRag ==
    /\ graphData = null
    /\ ragPapers = <<>>
    /\ embeddings = <<>>

\* what setGraphData is called with: a graph buildGraph returned and the
\* analyzed papers it was built from
DataSetsUpTo(maxPapers) ==
    UNION { { [papers |-> [i \in 1..n |-> CatalogPaper(i, dBio)],
               graph  |-> buildGraph([i \in 1..n |-> CatalogPaper(i, dBio)],
                                     ConnectionsOf(n, pairs, salt))]
              : pairs \in PairSets(n), salt \in Salts } : n \in 0..maxPapers }

DataSets == DataSetsUpTo(MaxNodes)

\* this.papers.find(p => p.id === id), undefined as noPaper
noPaper == [undefined |-> TRUE]

findPaper(papers, id) ==
    IF \E k \in 1..Len(papers) : papers[k].id = id
    THEN papers[CHOOSE k \in 1..Len(papers) :
                    papers[k].id = id /\ \A m \in 1..(k - 1) : papers[m].id /= id]
    ELSE noPaper

\* links.filter(link => link.source === id), the links followed one way only
outgoingLinks(links, id) == SelectSeq(links, LAMBDA link : link.source = id)

\* links.filter(link => link.source === id || link.target === id)
incidentLinks(links, id) ==
    SelectSeq(links, LAMBDA link : link.source = id \/ link.target = id)

otherEnd(link, id) == IF link.source = id THEN link.target ELSE link.source

-----------------------------------------------------------------------------
(* GraphRAG.findResearchPaths *)

maxPathsReturned == 5

\* the first entry of a path has no connection
noConnection == [undefined |-> TRUE]

\* node.connection?.strength || 0
connectionStrength(entry) ==
    IF entry.connection = noConnection THEN 0 ELSE entry.connection.strength

pathStrength(path) == SumSeq([k \in 1..Len(path) |-> connectionStrength(path[k])])

\* the paths left in the order the search found them
pathsAsFound(s) == s

\* paths.sort((a, b) => strengthB - strengthA), stable
RECURSIVE sortPathsByStrengthDesc(_)
sortPathsByStrengthDesc(s) ==
    IF s = <<>> THEN <<>>
    ELSE LET init == sortPathsByStrengthDesc(SubSeq(s, 1, Len(s) - 1))
             x    == s[Len(s)]
             k    == Cardinality({ i \in 1..Len(init) :
                                     pathStrength(init[i]) >= pathStrength(x) })
         IN  SubSeq(init, 1, k) \o <<x>> \o SubSeq(init, k + 1, Len(init))

\* if (hops > maxHops) return, with one hop too many let through
hopsExceededLate(hops, maxHops) == hops > maxHops + 1

\* if (hops > maxHops) return
hopsExceeded(hops, maxHops) == hops > maxHops

\* if (currentId === targetId), without the test of the path's length
targetReachedAtOnce(currentId, targetId, path) == currentId = targetId

\* if (currentId === targetId && path.length > 1)
targetReached(currentId, targetId, path) == currentId = targetId /\ Len(path) > 1

\* the visited set while the connections of currentId are followed: the
\* nodes of the current branch (visited.add on entry, visited.delete on exit)
visitedOnBranch(visited, currentId, found) == visited \cup {currentId}

\* the paths that dfs(currentId, targetId, path, hops) pushes, in order;
\* dfsConnections is its forEach over the connections from the k-th on
RECURSIVE dfsPaths(_, _, _, _, _, _, _), dfsConnections(_, _, _, _, _, _, _, _, _, _)
dfsPaths(currentId, targetId, path, hops, maxHops, visited, data) ==
    IF hopsExceeded(hops, maxHops) THEN <<>>
    ELSE IF targetReached(currentId, targetId, path) THEN <<path>>
    ELSE dfsConnections(incidentLinks(data.graph.links, currentId), 1, currentId,
                        targetId, path, hops, maxHops, visited, data, <<>>)

dfsConnections(conns, k, currentId, targetId, path, hops, maxHops, visited, data, found) ==
    IF k > Len(conns) THEN found
    ELSE LET nextId == otherEnd(conns[k], currentId)
             seen   == visitedOnBranch(visited, currentId, found)
             more   == IF nextId \in seen THEN <<>>
                       ELSE dfsPaths(nextId, targetId,
                                Append(path, [paperId |-> nextId,
                                              connection |-> conns[k],
                                              paper |-> findPaper(data.papers, nextId)]),
                                hops + 1, maxHops, seen, data)
         IN  dfsConnections(conns, k + 1, currentId, targetId, path, hops, maxHops,
                            visited, data, found \o more)

findResearchPaths(data, startId, endId, maxHops) ==
    IF data.graph = null THEN <<>>
    ELSE sliceTo(sortPathsByStrengthDesc(
                    dfsPaths(startId, endId, <<[paperId |-> startId,
                                                connection |-> noConnection]>>,
                             0, maxHops, {}, data)),
                 maxPathsReturned)

\* the largest maxHops a caller passes
MaxHops == 3

IdlePaths ==
    /\ pathPhase = "idle"
    /\ pathArgs = <<>>
    /\ paths = <<>>

\* the instance before any call, or after setGraphData(graph, papers)
InitRagData(dataSets) ==
    /\ embeddings = <<>>
    /\ \/ graphData = null /\ ragPapers = <<>>
       \/ \E d \in dataSets : graphData = d.graph /\ ragPapers = d.papers

\* graphRAG.findResearchPaths(startId, endId, maxHops)
FindResearchPaths(startId, endId, maxHops) ==
    /\ pathPhase = "idle"
    /\ pathPhase' = "done"
    /\ pathArgs' = [startId |-> startId, endId |-> endId, maxHops |-> maxHops]
    /\ paths' = findResearchPaths([graph |-> graphData, papers |-> ragPapers],
                                  startId, endId, maxHops)
    /\ UNCHANGED <<simVars, buildVars, ragVars, queryVars, extractVars, callVars>>

NextPaths ==
    \E startId \in 1..MaxNodes, endId \in 1..MaxNodes, maxHops \in 0..MaxHops :
        FindResearchPaths(startId, endId, maxHops)

-----------------------------------------------------------------------------
(* Properties of findResearchPaths *)

\* the node ids along a returned path
pathIds(path) == [k \in 1..Len(path) |-> path[k].paperId]

linked(a, b) ==
    \E k \in 1..Len(graphData.links) :
        \/ graphData.links[k].source = a /\ graphData.links[k].target = b
        \/ graphData.links[k].source = b /\ graphData.links[k].target = a

\* the ids of the nodes of the graph
nodeIds == IF graphData = null THEN {}
           ELSE { graphData.nodes[k].id : k \in 1..Len(graphData.nodes) }

\* the simple walks of exactly e edges that leave startId
RECURSIVE simpleWalks(_, _)
simpleWalks(startId, e) ==
    IF e = 0 THEN { <<startId>> }
    ELSE UNION { { Append(w, v) : v \in { u \in nodeIds :
                                             linked(w[Len(w)], u) /\ u \notin Range(w) } }
                 : w \in simpleWalks(startId, e - 1) }

\* every simple path from startId to endId with 1..maxHops edges
simplePaths(startId, endId, maxHops) ==
    UNION { { w \in simpleWalks(startId, e) : w[Len(w)] = endId } : e \in 1..maxHops }

pathsCalled == pathPhase = "done" /\ graphData /= null

isChain ==
    /\ graphData /= null
    /\ Len(graphData.nodes) = 4
    /\ { {graphData.links[k].source, graphData.links[k].target}
            : k \in 1..Len(graphData.links) } = { {1, 2}, {2, 3}, {3, 4} }
    /\ Len(graphData.links) = 3

\* C3: every path findResearchPaths returns has at most maxHops edges, starts
\* at startId and ends at endId
C3_PathsBoundedAndAnchored ==
    pathPhase = "done" =>
        \A k \in 1..Len(paths) :
            /\ Len(paths[k]) - 1 <= pathArgs.maxHops
            /\ paths[k][1].paperId = pathArgs.startId
            /\ paths[k][Len(paths[k])].paperId = pathArgs.endId

\* a call that returned two paths, one of them using all maxHops edges
C3_Witness ==
    /\ pathsCalled
    /\ Len(paths) >= 2
    /\ \E k \in 1..Len(paths) : Len(paths[k]) - 1 = pathArgs.maxHops

\* C4: for startId /= endId the returned paths are simple paths along
\* existing edges, and when at most 5 simple paths of 1..maxHops edges exist
\* all of them are returned; on the chain 1-2-3-4 a search from 1 to 4
\* returns the single path 1,2,3,4 with maxHops 3 and nothing with maxHops 2
C4_SimplePathsComplete ==
    (pathsCalled /\ pathArgs.startId /= pathArgs.endId) =>
        LET ids  == [k \in 1..Len(paths) |-> pathIds(paths[k])]
            all  == simplePaths(pathArgs.startId, pathArgs.endId, pathArgs.maxHops)
        IN  /\ \A k \in 1..Len(ids) :
                /\ \A a, b \in 1..Len(ids[k]) : a /= b => ids[k][a] /= ids[k][b]
                /\ \A a \in 1..(Len(ids[k]) - 1) :
                      /\ linked(ids[k][a], ids[k][a + 1])
                      /\ {paths[k][a + 1].connection.source,
                          paths[k][a + 1].connection.target}
                             = {ids[k][a], ids[k][a + 1]}
            /\ \A a, b \in 1..Len(ids) : a /= b => ids[a] /= ids[b]
            /\ Cardinality(all) <= maxPathsReturned => Range(ids) = all
            /\ (isChain /\ pathArgs.startId = 1 /\ pathArgs.endId = 4) =>
                  /\ pathArgs.maxHops = 3 => ids = << <<1, 2, 3, 4>> >>
                  /\ pathArgs.maxHops = 2 => ids = <<>>

\* the search from 1 to 4 with 3 hops on the chain 1-2-3-4 found its path
C4_Witness ==
    /\ pathsCalled
    /\ isChain
    /\ pathArgs = [startId |-> 1, endId |-> 4, maxHops |-> 3]
    /\ Len(paths) = 1

-----------------------------------------------------------------------------
(* GraphRAG: keyword search *)

\* `${paper.title} ${paper.concepts?.join(' ') || ''} ${paper.domain || ''}`
paperText(paper) ==
    paper.title \o <<" ">> \o joinSpace(paper.concepts) \o <<" ">> \o paper.domain

\* String.prototype.includes
includes(text, term) ==
    \E pos \in 1..(Len(text) - Len(term) + 1) :
        SubSeq(text, pos, pos + Len(term) - 1) = term

\* new RegExp(term, 'g') throws a SyntaxError on a pattern that is not a
\* regular expression; of the characters used here that is an unclosed group
regexValid(term) == \A k \in 1..Len(term) : term[k] \notin { "(", ")" }

\* the pattern matches the text at pos: "." matches any character, every
\* other character used here matches itself
matchesAt(text, pos, pattern) ==
    /\ pos + Len(pattern) - 1 <= Len(text)
    /\ \A k \in 1..Len(pattern) :
          pattern[k] = "." \/ pattern[k] = text[pos + k - 1]

\* (text.match(new RegExp(pattern, 'g')) || []).length from pos on: the
\* matches are taken left to right and do not overlap
RECURSIVE countMatches(_, _, _)
countMatches(text, pattern, pos) ==
    IF pos + Len(pattern) - 1 > Len(text) THEN 0
    ELSE IF matchesAt(text, pos, pattern)
         THEN 1 + countMatches(text, pattern, pos + Len(pattern))
         ELSE countMatches(text, pattern, pos + 1)

\* query.toLowerCase().split(/\s+/).filter(term => term.length > 2)
queryTerms(query) ==
    SelectSeq(splitWhitespace(toLowerCase(query)), LAMBDA term : Len(term) > 2)

\* what one query term adds to the score of a paper
termScore(paper, term) ==
    LET text == toLowerCase(paperText(paper))
    IN  2 * countMatches(text, term, 1)
        + (IF includes(text, term) THEN 1 ELSE 0)
        + (IF \E k \in 1..Len(paper.concepts) :
                 includes(toLowerCase(paper.concepts[k]), term)
           THEN 3 ELSE 0)

keywordScore(paper, terms) == SumSeq([k \in 1..Len(terms) |-> termScore(paper, terms[k])])

\* keywordBasedSearch throwing on an invalid term before it looks at a paper
keywordThrowsBeforeLoop(papers, query) ==
    \E k \in 1..Len(queryTerms(query)) : ~regexValid(queryTerms(query)[k])

\* keywordBasedSearch throws: the loop over the papers builds a RegExp from
\* every query term
keywordThrows(papers, query) ==
    /\ papers /= <<>>
    /\ \E k \in 1..Len(queryTerms(query)) : ~regexValid(queryTerms(query)[k])

\* { ...paper, relevanceScore: score }; scores are kept in thousandths
withRelevance(paper, score) ==
    [f \in DOMAIN paper \cup {"relevanceScore"} |->
        IF f = "relevanceScore" THEN score ELSE paper[f]]

\* s.sort((a, b) => key(b) - key(a)) on <<key, item>> pairs, stable
RECURSIVE sortPairsDesc(_)
sortPairsDesc(s) ==
    IF s = <<>> THEN <<>>
    ELSE LET init == sortPairsDesc(SubSeq(s, 1, Len(s) - 1))
             x    == s[Len(s)]
             k    == Cardinality({ i \in 1..Len(init) : init[i][1] >= x[1] })
         IN  SubSeq(init, 1, k) \o <<x>> \o SubSeq(init, k + 1, Len(init))

\* the items of s by decreasing key, keys[i] being the key of s[i]
sortDescByKey(s, keys) ==
    LET sorted == sortPairsDesc([i \in 1..Len(s) |-> <<keys[i], s[i]>>])
    IN  [i \in 1..Len(s) |-> sorted[i][2]]

\* paper.relevanceScore || 0: a paper as it is stored has no relevanceScore
relevanceOrZero(paper) ==
    IF "relevanceScore" \in DOMAIN paper THEN paper.relevanceScore ELSE 0

\* the papers in the order the pushes left them in
asPushed(papers) == papers

\* papers.sort((a, b) => (b.relevanceScore || 0) - (a.relevanceScore || 0))
sortByRelevanceDesc(papers) ==
    sortDescByKey(papers, [i \in 1..Len(papers) |-> relevanceOrZero(papers[i])])

\* keywordBasedSearch when it does not throw
keywordBasedSearch(papers, query, maxResults) ==
    LET terms  == queryTerms(query)
        scored == [k \in 1..Len(papers) |->
                      withRelevance(papers[k], 1000 * keywordScore(papers[k], terms))]
    IN  sliceTo(sortByRelevanceDesc(
                    SelectSeq(scored, LAMBDA paper : paper.relevanceScore > 0)),
                maxResults)

-----------------------------------------------------------------------------
(* GraphRAG: embeddings *)

\* getEmbedding returned null
noEmbedding == <<>>

\* the embedding provider: the vector it answers with depends on the text
\* alone; here on whether the text speaks of bone, of cells, or of both
providerEmbedding(text) ==
    LET bone == includes(toLowerCase(text), wBone)
        cell == includes(toLowerCase(text), wCell)
    IN  IF bone /\ cell THEN <<3, 4>>
        ELSE IF bone THEN <<1, 0>>
        ELSE IF cell THEN <<0, 1>>
        ELSE <<0, 0>>

\* text.substring(0, 100)
cacheKey(text) == sliceTo(text, 100)

dotProduct(a, b) == SumSeq([i \in 1..Len(a) |-> a[i] * b[i]])

\* GraphRAG.cosineSimilarity, in thousandths; the components are not
\* negative, so the quotient is the root of dot^2 / (|a|^2 |b|^2)
cosineSimilarity(vecA, vecB) ==
    IF vecA = noEmbedding \/ vecB = noEmbedding THEN 0
    ELSE LET norms == dotProduct(vecA, vecA) * dotProduct(vecB, vecB)
         IN  IF norms = 0 THEN 0      \* 0 / 0 is NaN, and NaN || 0 is 0
             ELSE ISqrt((dotProduct(vecA, vecB) * dotProduct(vecA, vecB) * 1000000)
                            \div norms)

\* what getEmbedding(text) resolves with: the cached vector, the provider's
\* answer, or null when the provider call fails
getEmbedding(cache, text, ok) ==
    IF cacheKey(text) \in DOMAIN cache THEN cache[cacheKey(text)]
    ELSE IF ok THEN providerEmbedding(text)
    ELSE noEmbedding

\* this.embeddings after getEmbedding(text)
cacheAfter(cache, text, ok) ==
    IF cacheKey(text) \in DOMAIN cache \/ ~ok THEN cache
    ELSE [key \in DOMAIN cache \cup {cacheKey(text)} |->
             IF key = cacheKey(text) THEN providerEmbedding(text) ELSE cache[key]]

\* the end of embeddingBasedSearch: sort, slice, filter, map
rankBySimilarity(paperScores, maxResults) ==
    LET sorted == sortDescByKey(paperScores,
                      [i \in 1..Len(paperScores) |-> paperScores[i].similarity])
        kept   == SelectSeq(sliceTo(sorted, maxResults),
                            LAMBDA item : item.similarity > 500)
    IN  [i \in 1..Len(kept) |-> withRelevance(kept[i].paper, kept[i].similarity)]

-----------------------------------------------------------------------------
(* GraphRAG: graph expansion, insights, connections, context *)

\* (connection.strength * 100).toFixed(0)
percentOf(strength) == (strength + 5) \div 10

\* expandWithGraphContext: the connections of one candidate from the c-th
\* on; acc is the papers array with what has been pushed so far
RECURSIVE expandConnections(_, _, _, _, _, _)
expandConnections(paper, conns, c, expandedIds, acc, data) ==
    IF c > Len(conns) THEN <<expandedIds, acc>>
    ELSE LET connectedId    == otherEnd(conns[c], paper.id)
             connectedPaper == findPaper(data.papers, connectedId)
             add == /\ connectedId \notin expandedIds
                    /\ conns[c].strength > 600
                    /\ connectedPaper /= noPaper
             pushed ==
                 [f \in DOMAIN connectedPaper \cup {"relevanceScore", "connectionReason"} |->
                    IF f = "relevanceScore"
                    THEN (relevanceOrZero(findPaper(acc, paper.id)) * conns[c].strength)
                             \div 1000
                    ELSE IF f = "connectionReason"
                    THEN [title |-> paper.title, percent |-> percentOf(conns[c].strength)]
                    ELSE connectedPaper[f]]
         IN  IF add
             THEN expandConnections(paper, conns, c + 1, expandedIds \cup {connectedId},
                                    Append(acc, pushed), data)
             ELSE expandConnections(paper, conns, c + 1, expandedIds, acc, data)

\* a forEach that would go on to the papers pushed meanwhile
visitsPushed(n, acc) == Len(acc)

\* how many papers papers.forEach visits: the n papers the array held when
\* it started, not the ones pushed meanwhile
forEachLength(n, acc) == n

\* papers.forEach from the k-th candidate on
RECURSIVE expandPapers(_, _, _, _, _)
expandPapers(k, n, expandedIds, acc, data) ==
    IF k > forEachLength(n, acc) THEN acc
    ELSE LET step == expandConnections(acc[k], incidentLinks(data.graph.links, acc[k].id),
                                       1, expandedIds, acc, data)
         IN  expandPapers(k + 1, n, step[1], step[2], data)

expandWithGraphContext(papers, data) ==
    IF data.graph = null THEN papers
    ELSE sortByRelevanceDesc(
             expandPapers(1, Len(papers), { papers[k].id : k \in 1..Len(papers) },
                          papers, data))

\* relevantPapers when the result is assembled: expandWithGraphContext pushes
\* to and sorts the array it is given, and returns that array, so that
\* relevantPapers and expandedResults are one array
relevantPapersAtReturn(candidates, expanded) == expanded

\* the sequences of seqs one after the other
RECURSIVE flatten(_)
flatten(seqs) == IF seqs = <<>> THEN <<>> ELSE seqs[1] \o flatten(Tail(seqs))

countOf(x, s) == Cardinality({ i \in 1..Len(s) : s[i] = x })

\* [...counts.entries()].sort((a, b) => b[1] - a[1]) of the items of s
byCountDesc(s) ==
    LET keys == uniqueInOrder(s)
    IN  sortDescByKey(keys, [i \in 1..Len(keys) |-> countOf(keys[i], s)])

extractThemes(papers) ==
    sliceTo(byCountDesc(flatten([k \in 1..Len(papers) |-> papers[k].concepts])), 8)

analyzeDomainDistribution(papers) ==
    LET domains == [k \in 1..Len(papers) |-> OrElse(papers[k].domain, unknownDomain)]
        keys    == byCountDesc(domains)
    IN  [i \in 1..Len(keys) |-> [domain |-> keys[i], count |-> countOf(keys[i], domains)]]

\* generateBasicInsights; content lists the sentences it is made of. The
\* papers carry no degree, so avgConnections is 0, or NaN for no papers
generateBasicInsights(papers) ==
    LET themes  == extractThemes(papers)
        domains == analyzeDomainDistribution(papers)
    IN  [aiGenerated |-> FALSE,
         content |-> (IF Len(domains) > 1 THEN <<"multiple domains">> ELSE <<>>)
                     \o (IF Len(themes) > 0 THEN <<"themes">> ELSE <<>>)
                     \o (IF papers /= <<>> THEN <<"few connections">> ELSE <<>>),
         themes |-> themes,
         domains |-> domains]

\* generateInsights after the chat completion answered
generateAiInsights(papers) ==
    [aiGenerated |-> TRUE,
     content |-> <<"provider text">>,
     themes |-> extractThemes(papers),
     domains |-> analyzeDomainDistribution(papers)]

\* findRelevantConnections, without the sourcePaper and targetPaper it
\* attaches to each link
findRelevantConnections(papers, data) ==
    IF data.graph = null THEN <<>>
    ELSE LET paperIds == { papers[k].id : k \in 1..Len(papers) }
         IN  sliceTo(sortByStrengthDesc(
                        SelectSeq(data.graph.links,
                                  LAMBDA link : link.source \in paperIds
                                                /\ link.target \in paperIds)),
                     10)

getGraphContext(papers, data) ==
    IF data.graph = null THEN null
    ELSE LET paperIds == { papers[k].id : k \in 1..Len(papers) }
             relevantNodes == SelectSeq(data.graph.nodes, LAMBDA node : node.id \in paperIds)
             relevantLinks == SelectSeq(data.graph.links,
                                        LAMBDA link : link.source \in paperIds
                                                      /\ link.target \in paperIds)
             n == Len(relevantNodes)
         IN  [nodes |-> relevantNodes,
              links |-> relevantLinks,
              stats |-> [nodeCount |-> n,
                         linkCount |-> Len(relevantLinks),
                         density |-> Div(2 * Len(relevantLinks), n * (n - 1))]]

-----------------------------------------------------------------------------
(* GraphRAG.queryGraph *)

\* the result object the try block of queryGraph returns
queryResult(args, data, candidates, expanded, insights) ==
    [query |-> args.query,
     results |-> sliceTo(expanded, args.maxResults),
     insights |-> insights,
     connections |-> IF args.includeConnections
                     THEN findRelevantConnections(expanded, data) ELSE <<>>,
     graphContext |-> getGraphContext(expanded, data),
     metadata |-> [totalRelevant |-> Len(expanded),
                   semanticMatches |-> Len(relevantPapersAtReturn(candidates, expanded)),
                   graphExpanded |-> Len(expanded)
                                     - Len(relevantPapersAtReturn(candidates, expanded))]]

\* fallbackQuery when its keyword search does not throw
fallbackQuery(data, query, maxResults) ==
    LET results == keywordBasedSearch(data.papers, query, maxResults)
    IN  [query |-> query,
         results |-> results,
         insights |-> generateBasicInsights(results),
         connections |-> <<>>,
         graphContext |-> null,
         metadata |-> [totalRelevant |-> Len(results), fallbackMode |-> TRUE]]

noResult == [undefined |-> TRUE]

noSearch == [index |-> 0, papers |-> <<>>, queryEmbedding |-> noEmbedding,
             paperScores |-> <<>>]

IdleQuery ==
    /\ qPhase = "idle"
    /\ qArgs = <<>>
    /\ qEmbed = noSearch
    /\ qCandidates = <<>>
    /\ qExpanded = <<>>
    /\ qFailures = {}
    /\ qResult = noResult

currentData == [graph |-> graphData, papers |-> ragPapers]

\* the return of the try block
Resolve(args, candidates, expanded, insights) ==
    /\ qPhase' = "done"
    /\ qResult' = queryResult(args, currentData, candidates, expanded, insights)

\* queryGraph from the return of semanticSearch to its next await: graph
\* expansion, then generateInsights, which answers at once without a client
\* or without papers and otherwise awaits the chat completion
AfterSearch(args, candidates) ==
    LET expanded == IF args.useGraphStructure
                    THEN expandWithGraphContext(candidates, currentData)
                    ELSE candidates
    IN  /\ qCandidates' = candidates
        /\ qExpanded' = expanded
        /\ IF ~openai \/ expanded = <<>>
           THEN Resolve(args, candidates, expanded, generateBasicInsights(expanded))
           ELSE qPhase' = "insights" /\ qResult' = noResult

\* the catch block of queryGraph: fallbackQuery, whose keyword search throws
\* again where the first one threw, and then the promise rejects
CatchAndFallBack(args) ==
    /\ qCandidates' = <<>>
    /\ qExpanded' = <<>>
    /\ IF keywordThrows(ragPapers, args.query)
       THEN qPhase' = "rejected" /\ qResult' = noResult
       ELSE /\ qPhase' = "done"
            /\ qResult' = fallbackQuery(currentData, args.query, args.maxResults)

\* the option sets a caller passes; no options means 10, true, true
QueryOptions ==
    [maxResults : {1, 10}, includeConnections : BOOLEAN, useGraphStructure : BOOLEAN]

qBone  == joinSpace(<< <<"o", "f">>, wBone >>)
qCells == joinSpace(<<wBoneC, wCell>>)
qGroup == <<"(">> \o wBone
qAny   == <<"b", ".", "n", "e">>
qThe   == wThe

Queries == { qBone, qCells, qGroup, qAny, qThe }

\* queryGraph(query, options) up to its first await on a provider
StartQuery(query, options) ==
    LET args == [query |-> query, maxResults |-> options.maxResults,
                 includeConnections |-> options.includeConnections,
                 useGraphStructure |-> options.useGraphStructure]
    IN  /\ qPhase = "idle"
        /\ qArgs' = args
        /\ IF openai
           THEN /\ qPhase' = "embedding"
                /\ UNCHANGED <<qEmbed, qCandidates, qExpanded, qResult>>
           ELSE /\ qEmbed' = qEmbed
                /\ IF keywordThrows(ragPapers, query)
                   THEN CatchAndFallBack(args)
                   ELSE AfterSearch(args, keywordBasedSearch(ragPapers, query,
                                                             2 * args.maxResults))
        /\ UNCHANGED <<qFailures, ragVars, simVars, buildVars, pathVars, extractVars, callVars>>

\* an awaited getEmbedding resolves: first the one for the query, then one
\* per paper; after the last one the search returns and the query runs on
EmbeddingResolves(ok) ==
    /\ qPhase = "embedding"
    /\ LET loop  == IF qEmbed.index = 0 THEN ragPapers ELSE qEmbed.papers
           text  == IF qEmbed.index = 0 THEN qArgs.query
                    ELSE paperText(loop[qEmbed.index])
           value == getEmbedding(embeddings, text, ok)
           queryEmbedding == IF qEmbed.index = 0 THEN value ELSE qEmbed.queryEmbedding
           paperScores ==
               IF qEmbed.index = 0 THEN <<>>
               ELSE Append(qEmbed.paperScores,
                           [paper |-> loop[qEmbed.index],
                            similarity |-> cosineSimilarity(queryEmbedding, value)])
       IN  /\ embeddings' = cacheAfter(embeddings, text, ok)
           /\ qFailures' = IF value = noEmbedding THEN qFailures \cup {"embedding"}
                           ELSE qFailures
           /\ qEmbed' = [index |-> qEmbed.index + 1, papers |-> loop,
                         queryEmbedding |-> queryEmbedding, paperScores |-> paperScores]
           /\ IF qEmbed.index < Len(loop)
              THEN UNCHANGED <<qPhase, qCandidates, qExpanded, qResult>>
              ELSE AfterSearch(qArgs, rankBySimilarity(paperScores, 2 * qArgs.maxResults))
    /\ UNCHANGED <<qArgs, openai, graphData, ragPapers, simVars, buildVars, pathVars,
                   extractVars, callVars>>

\* the awaited chat completion of generateInsights answers or fails
InsightsResolve(ok) ==
    /\ qPhase = "insights"
    /\ qFailures' = IF ok THEN qFailures ELSE qFailures \cup {"insights"}
    /\ Resolve(qArgs, qCandidates, qExpanded,
               IF ok THEN generateAiInsights(qExpanded)
               ELSE generateBasicInsights(qExpanded))
    /\ UNCHANGED <<qArgs, qEmbed, qCandidates, qExpanded, ragVars,
                   simVars, buildVars, pathVars, extractVars, callVars>>

NextQuery ==
    \/ \E query \in Queries, options \in QueryOptions : StartQuery(query, options)
    \/ \E ok \in BOOLEAN : EmbeddingResolves(ok)
    \/ \E ok \in BOOLEAN : InsightsResolve(ok)

\* the most papers a queried instance holds
MaxQueryPapers == 3

-----------------------------------------------------------------------------
(* Properties of queryGraph *)

isFallback(result) ==
    /\ "fallbackMode" \in DOMAIN result.metadata
    /\ result.metadata.fallbackMode

\* C1: queryGraph never rejects, whatever the query, the options and the
\* providers' outcomes; a query whose search saw a failure resolves with the
\* keyword fallback result, marked metadata.fallbackMode = true
C1_QueryNeverRejects ==
    /\ qPhase /= "rejected"
    /\ (qPhase = "done" /\ "embedding" \in qFailures) => isFallback(qResult)

\* C2: with a client configured, once an embedding call of the query has
\* failed the search returns exactly what keywordBasedSearch returns for the
\* same query and papers, and the result is marked as fallback
C2_EmbeddingFailureFallsBackToKeywords ==
    (/\ openai
     /\ qPhase \in {"insights", "done"}
     /\ "embedding" \in qFailures
     /\ ~keywordThrows(ragPapers, qArgs.query)) =>
        /\ qCandidates = keywordBasedSearch(ragPapers, qArgs.query, 2 * qArgs.maxResults)
        /\ qPhase = "done" => isFallback(qResult)

resultContext == qPhase = "done" /\ qResult.graphContext /= null

\* C11: the density of the subgraph context is
\* edgeCount / (nodeCount * (nodeCount - 1) / 2), and is the number 0, not NaN
\* or infinite, when the subgraph has 0 or 1 nodes
C11_DensityDefined ==
    resultContext =>
        LET stats == qResult.graphContext.stats
        IN  IF stats.nodeCount <= 1
            THEN stats.density = 0
            ELSE stats.density = (1000 * stats.linkCount)
                                    \div ((stats.nodeCount * (stats.nodeCount - 1)) \div 2)

\* C12: a query over an empty paper set, with or without a graph set,
\* returns without error a result with no results, no connections and the
\* metadata counts totalRelevant, semanticMatches and graphExpanded all 0
C12_EmptyPaperSet ==
    (ragPapers = <<>> /\ qPhase /= "idle") =>
        /\ qPhase \in {"embedding", "done"}
        /\ qPhase = "done" =>
              /\ qResult.results = <<>>
              /\ qResult.connections = <<>>
              /\ qResult.metadata = [totalRelevant |-> 0, semanticMatches |-> 0,
                                     graphExpanded |-> 0]

\* a query with a term that is no regular expression answered over a set
\* graph without papers
C12_Witness ==
    /\ qPhase = "done"
    /\ ragPapers = <<>>
    /\ graphData /= null
    /\ qArgs.query = qGroup
    /\ ~openai

\* C13: every connection of a query result joins two papers of the result's
\* results sequence; the connections are sorted by strength, largest first,
\* and there are at most 10 of them
C13_ConnectionsAmongResults ==
    qPhase = "done" =>
        LET ids   == { qResult.results[k].id : k \in 1..Len(qResult.results) }
            conns == qResult.connections
        IN  /\ \A k \in 1..Len(conns) : conns[k].source \in ids /\ conns[k].target \in ids
            /\ \A k \in 1..(Len(conns) - 1) : conns[k].strength >= conns[k + 1].strength
            /\ Len(conns) <= 10

\* C14: metadata.semanticMatches is the number of candidates the search
\* returned before graph expansion, and metadata.graphExpanded the number of
\* papers that graph expansion added to them
C14_MetadataCounts ==
    (qPhase = "done" /\ ~isFallback(qResult)) =>
        /\ qResult.metadata.semanticMatches = Len(qCandidates)
        /\ qResult.metadata.graphExpanded = Len(qExpanded) - Len(qCandidates)

-----------------------------------------------------------------------------
(* PaperAnalyzer.extractConcepts *)

batchSize == 5

interBatchDelayMs == 1000

\* { ...paper, ...fields }
spread(paper, fields) ==
    [f \in DOMAIN paper \cup DOMAIN fields |->
        IF f \in DOMAIN fields THEN fields[f] ELSE paper[f]]

\* PaperAnalyzer.extractBasicConcepts
extractBasicConcepts(title) ==
    sliceTo(uniqueInOrder(
                SelectSeq(splitWhitespace(stripPunctuation(toLowerCase(title))),
                          LAMBDA word : Len(word) > 3 /\ ~isStopWord(word))),
            5)

\* the catch block of extractConcepts: the paper with local concepts
fallbackPaper(paper) == spread(paper, [concepts |-> extractBasicConcepts(paper.title)])

\* analysisResults[index] is undefined
noAnalysis == [undefined |-> TRUE]

\* methodology: null
noMethodology == <<>>

\* what the provider says of one title when it answers: the words of the
\* title as written, and a domain
analysisOf(paper) ==
    [concepts |-> uniqueInOrder(splitWhitespace(paper.title)),
     domain |-> dBio,
     methodology |-> noMethodology]

\* the outcomes of one chat completion: an error (or an answer that is not
\* JSON), an answer with an entry for every title, an answer one entry short
BatchOutcomes == { "error", "full", "short" }

\* analysisResults for a batch that was answered
analysisResults(batch, outcome) ==
    [k \in 1..(IF outcome = "short" THEN Len(batch) - 1 ELSE Len(batch)) |->
        analysisOf(batch[k])]

\* processBatch: papers.map((paper, index) => ...) on an answered batch
mergeAnalysis(paper, analysis) ==
    IF analysis = noAnalysis
    THEN spread(paper, [concepts |-> extractBasicConcepts(paper.title),
                        domain |-> unknownDomain,
                        methodology |-> noMethodology])
    ELSE spread(paper, [concepts |-> analysis.concepts,
                        domain |-> OrElse(analysis.domain, unknownDomain),
                        methodology |-> analysis.methodology])

processBatch(batch, outcome) ==
    LET answer == analysisResults(batch, outcome)
    IN  [k \in 1..Len(batch) |->
            mergeAnalysis(batch[k], IF k <= Len(answer) THEN answer[k] ELSE noAnalysis)]

\* a failed batch that throws away what earlier batches gave
onlyFallback(analyzed, batch) == [k \in 1..Len(batch) |-> fallbackPaper(batch[k])]

\* analyzedPapers.push(...batch.map(...)) in the catch block
afterFailedBatch(analyzed, batch) ==
    analyzed \o [k \in 1..Len(batch) |-> fallbackPaper(batch[k])]

\* papers.slice(i, i + batchSize)
batchAt(papers, i) ==
    SubSeq(papers, i + 1, IF i + batchSize < Len(papers) THEN i + batchSize ELSE Len(papers))

rawTitles ==
    catalogTitles
        \o << <<"B", "o", "n", "e", "-", "c", "e", "l", "l", ",", " ">>
                  \o joinSpace(<<wThe, wBone, wLoss>>) >>

\* a paper record as loaded, before analysis
rawPaper(i) ==
    [id |-> i, title |-> rawTitles[((i - 1) % Len(rawTitles)) + 1], link |-> toDecimal(i)]

\* the most papers handed to extractConcepts
MaxExtractPapers == 11

IdleExtract ==
    /\ exPhase = "idle"
    /\ exPapers = <<>>
    /\ exIndex = 0
    /\ analyzedPapers = <<>>
    /\ exOutcomes = <<>>
    /\ exEvents = <<>>

InitExtract ==
    /\ exPhase = "input"
    /\ exPapers \in { [i \in 1..n |-> rawPaper(i)] : n \in 0..MaxExtractPapers }
    /\ exIndex = 0
    /\ analyzedPapers = <<>>
    /\ exOutcomes = <<>>
    /\ exEvents = <<>>

\* extractConcepts(papers) up to the first await of processBatch
ExtractConcepts ==
    /\ exPhase = "input"
    /\ exPhase' = IF exPapers = <<>> THEN "done" ELSE "calling"
    /\ UNCHANGED <<exPapers, exIndex, analyzedPapers, exOutcomes, exEvents>>
    /\ UNCHANGED <<simVars, buildVars, ragVars, pathVars, queryVars, callVars>>

\* the awaited processBatch of the batch at exIndex resolves or rejects; an
\* answered batch is followed by the delay when more papers remain, a failed
\* one by the next batch at once
BatchResolves(outcome) ==
    /\ exPhase = "calling"
    /\ LET batch == batchAt(exPapers, exIndex)
           more  == exIndex + batchSize < Len(exPapers)
       IN  /\ analyzedPapers' = IF outcome = "error"
                                THEN afterFailedBatch(analyzedPapers, batch)
                                ELSE analyzedPapers \o processBatch(batch, outcome)
           /\ exOutcomes' = Append(exOutcomes, outcome)
           /\ exEvents' = Append(exEvents, [kind |-> "call", ok |-> outcome /= "error"])
           /\ IF outcome /= "error" /\ more
              THEN exPhase' = "delay" /\ exIndex' = exIndex
              ELSE /\ exIndex' = exIndex + batchSize
                   /\ exPhase' = IF more THEN "calling" ELSE "done"
    /\ UNCHANGED exPapers
    /\ UNCHANGED <<simVars, buildVars, ragVars, pathVars, queryVars, callVars>>

\* await this.delay(1000) is over
DelayElapses ==
    /\ exPhase = "delay"
    /\ exEvents' = Append(exEvents, [kind |-> "delay", ms |-> interBatchDelayMs])
    /\ exIndex' = exIndex + batchSize
    /\ exPhase' = "calling"
    /\ UNCHANGED <<exPapers, analyzedPapers, exOutcomes>>
    /\ UNCHANGED <<simVars, buildVars, ragVars, pathVars, queryVars, callVars>>

NextExtract ==
    \/ ExtractConcepts
    \/ \E outcome \in BatchOutcomes : BatchResolves(outcome)
    \/ DelayElapses

-----------------------------------------------------------------------------
(* Properties of extractConcepts *)

\* the batch paper k belongs to, counted from 1
batchOf(k) == ((k - 1) \div batchSize) + 1

\* whether the provider's answer for paper k's batch had an entry for it
answeredFor(k) ==
    /\ exOutcomes[batchOf(k)] /= "error"
    /\ \/ exOutcomes[batchOf(k)] = "full"
       \/ k < batchOf(k) * batchSize /\ k < Len(exPapers)

\* C15: extractConcepts works through consecutive batches of 5; whichever
\* batches fail, it returns one analyzed paper per input paper in input
\* order; the papers of a failed batch, and only they, get the local fallback
\* concepts, and the papers of answered batches stay as the provider gave them
C15_BatchesIndependent ==
    /\ Len(analyzedPapers) = IF Len(exOutcomes) * batchSize < Len(exPapers)
                             THEN Len(exOutcomes) * batchSize ELSE Len(exPapers)
    /\ exPhase = "done" => Len(analyzedPapers) = Len(exPapers)
    /\ \A k \in 1..Len(analyzedPapers) :
          /\ analyzedPapers[k].id = exPapers[k].id
          /\ analyzedPapers[k].title = exPapers[k].title
          /\ analyzedPapers[k].link = exPapers[k].link
          /\ exOutcomes[batchOf(k)] = "error" =>
                analyzedPapers[k].concepts = extractBasicConcepts(exPapers[k].title)
          /\ answeredFor(k) =>
                /\ analyzedPapers[k].concepts = analysisOf(exPapers[k]).concepts
                /\ analyzedPapers[k].domain = analysisOf(exPapers[k]).domain

\* a run of three batches whose second batch failed
C15_Witness ==
    /\ exPhase = "done"
    /\ Len(exOutcomes) = 3
    /\ exOutcomes[1] /= "error" /\ exOutcomes[2] = "error" /\ exOutcomes[3] /= "error"

\* C16: every paper of a batch whose provider call failed comes back with
\* the fallback concepts and with domain "Unknown"
C16_FailedBatchDomainUnknown ==
    \A k \in 1..Len(analyzedPapers) :
        exOutcomes[batchOf(k)] = "error" =>
            /\ analyzedPapers[k].concepts = extractBasicConcepts(exPapers[k].title)
            /\ "domain" \in DOMAIN analyzedPapers[k]
            /\ analyzedPapers[k].domain = unknownDomain

-----------------------------------------------------------------------------
(* More properties of findResearchPaths *)

\* C17: findResearchPaths returns no path when startId or endId is not the
\* id of a node of the graph, when no graph has been set, and when startId
\* equals endId
C17_NoPathsForDegenerateRequests ==
    (/\ pathPhase = "done"
     /\ \/ graphData = null
        \/ pathArgs.startId \notin nodeIds
        \/ pathArgs.endId \notin nodeIds
        \/ pathArgs.startId = pathArgs.endId) =>
        paths = <<>>

\* a search from a node with a link back to itself, with hops to spare
C17_Witness ==
    /\ pathPhase = "done"
    /\ graphData /= null
    /\ pathArgs.startId = pathArgs.endId
    /\ pathArgs.maxHops >= 2
    /\ incidentLinks(graphData.links, pathArgs.startId) /= <<>>

-----------------------------------------------------------------------------
(* findConnections over many papers *)

\* the largest number of papers of a long list: 33 papers make 528 pairs
MaxManyPapers == 33

\* the number of different papers a long list repeats
Cycles == { 1, 2, 3 }

\* paper i of a long list that repeats the first `cycle` papers
ManyPaper(i, cycle) ==
    [CatalogPaper(((i - 1) % cycle) + 1, dBio) EXCEPT !.id = i]

InitMany ==
    /\ simPhase = "input"
    /\ analyzer = "none"
    /\ papersIn \in { [i \in 1..n |-> ManyPaper(i, cycle)]
                        : n \in 0..MaxManyPapers, cycle \in Cycles }
    /\ connections = <<>>
    /\ simMatrix = <<>>

NextMany == \E variant \in Analyzers : FindConnections(variant)

\* the concepts two papers share, compared without regard to case
sharedIgnoringCase(paper1, paper2) ==
    { toLowerCase(c) : c \in Range(paper1.concepts) }
        \cap { toLowerCase(c) : c \in Range(paper2.concepts) }

\* C18: every edge findConnections returns joins a pair i < j of the papers
\* whose similarity is strictly above the threshold (0.3 in PaperAnalyzer,
\* 0.2 in DemoAnalyzer), carries that similarity as its strength and the
\* case-insensitive intersection of the two concept lists as sharedConcepts;
\* the edges are ordered by strength, largest first, and are at most 500
\* (PaperAnalyzer) or 300 (DemoAnalyzer); a pair above the threshold is left
\* out only when the cap is reached, and is then no stronger than any edge
\* returned.
C18_ConnectionsThresholdOrderCap ==
    simPhase = "connected" =>
        LET n     == Len(papersIn)
            limit == IF analyzer = "PaperAnalyzer" THEN 300 ELSE 200
            cap   == IF analyzer = "PaperAnalyzer" THEN 500 ELSE 300
            sim(i, j) == calculateSimilarity(analyzer, papersIn[i], papersIn[j])
            emitted(i, j) ==
                \E k \in 1..Len(connections) :
                    /\ connections[k].source = papersIn[i].id
                    /\ connections[k].target = papersIn[j].id
        IN  /\ \A k \in 1..Len(connections) :
                   \E i, j \in 1..n :
                       /\ i < j
                       /\ connections[k].source = papersIn[i].id
                       /\ connections[k].target = papersIn[j].id
                       /\ connections[k].strength = sim(i, j)
                       /\ ~IsNaN(connections[k].strength)
                       /\ connections[k].strength > limit
                       /\ Range(connections[k].sharedConcepts)
                              = sharedIgnoringCase(papersIn[i], papersIn[j])
            /\ \A k \in 1..(Len(connections) - 1) :
                   connections[k].strength >= connections[k + 1].strength
            /\ Len(connections) <= cap
            /\ \A i, j \in 1..n :
                   (i < j /\ Gt(sim(i, j), limit) /\ ~emitted(i, j)) =>
                       /\ Len(connections) = cap
                       /\ sim(i, j) <= connections[cap].strength

\* PaperAnalyzer returns 500 edges of different strengths and leaves a pair
\* above the threshold out
C18_Witness ==
    /\ simPhase = "connected"
    /\ analyzer = "PaperAnalyzer"
    /\ Len(connections) = maxConnectionsPaperAnalyzer
    /\ connections[1].strength > connections[Len(connections)].strength
    /\ \E i, j \in 1..Len(papersIn) :
           /\ i < j
           /\ Gt(calculateSimilarity(analyzer, papersIn[i], papersIn[j]),
                 thresholdPaperAnalyzer)
           /\ \A k \in 1..Len(connections) :
                  EndPoints(connections[k]) /= { papersIn[i].id, papersIn[j].id }


\* the papers graph expansion added: the results that carry a connectionReason
isAdded(paper) == "connectionReason" \in DOMAIN paper

\* C19: after graph expansion every result is a search candidate or an added
\* paper; an added paper is no candidate, occurs once, and is joined to some
\* search candidate by a link of strength strictly above 0.6, from which it
\* has its relevanceScore (the candidate's relevanceScore times the link's
\* strength) and its connectionReason; so a paper joined only to added
\* papers is not added.
C19_ExpansionAddsStrongNeighbours ==
    (qPhase \in {"insights", "done"} /\ qArgs.useGraphStructure /\ graphData /= null) =>
        \A k \in 1..Len(qExpanded) :
            IF isAdded(qExpanded[k])
            THEN /\ \A c \in 1..Len(qCandidates) : qCandidates[c].id /= qExpanded[k].id
                 /\ \A m \in 1..Len(qExpanded) : qExpanded[m].id = qExpanded[k].id => m = k
                 /\ \E c \in 1..Len(qCandidates), l \in 1..Len(graphData.links) :
                        /\ { graphData.links[l].source, graphData.links[l].target }
                               = { qCandidates[c].id, qExpanded[k].id }
                        /\ graphData.links[l].strength > 600
                        /\ qExpanded[k].relevanceScore
                               = (qCandidates[c].relevanceScore * graphData.links[l].strength)
                                     \div 1000
                        /\ qExpanded[k].connectionReason.title = qCandidates[c].title
                        /\ qExpanded[k].connectionReason.percent
                               = (graphData.links[l].strength + 5) \div 10
            ELSE \E c \in 1..Len(qCandidates) : qCandidates[c] = qExpanded[k]

\* a candidate brought a neighbour in, and that neighbour has a strong link
\* to a third paper, which is not in the results
C19_Witness ==
    /\ qPhase = "done"
    /\ qArgs.useGraphStructure
    /\ graphData /= null
    /\ \E k \in 1..Len(qExpanded), l \in 1..Len(graphData.links) :
           /\ isAdded(qExpanded[k])
           /\ graphData.links[l].strength > 600
           /\ qExpanded[k].id \in { graphData.links[l].source, graphData.links[l].target }
           /\ \E id \in { graphData.links[l].source, graphData.links[l].target } :
                  /\ id /= qExpanded[k].id
                  /\ \A m \in 1..Len(qExpanded) : qExpanded[m].id /= id


\* the paper's title, one of its concepts or its domain contains the term,
\* compared in lower case
containsTerm(paper, term) ==
    \/ includes(toLowerCase(paper.title), term)
    \/ \E c \in 1..Len(paper.concepts) : includes(toLowerCase(paper.concepts[c]), term)
    \/ includes(toLowerCase(paper.domain), term)

\* the results are ordered by relevanceScore, largest first
rankedByScore(papers) ==
    \A k \in 1..(Len(papers) - 1) :
        papers[k].relevanceScore >= papers[k + 1].relevanceScore

\* C20: without a client the search is keywordBasedSearch; every paper it
\* returns has a strictly positive score and contains, in its title, its
\* concepts or its domain, one of the query terms (the words of the query
\* longer than 2 characters), and the papers are ordered by score, largest
\* first.
C20_KeywordSearchResults ==
    (~openai /\ qPhase = "done" /\ ~keywordThrows(ragPapers, qArgs.query)) =>
        /\ \A k \in 1..Len(qCandidates) : qCandidates[k].relevanceScore > 0
        /\ rankedByScore(qCandidates)
        /\ \A k \in 1..Len(qCandidates) :
               \E term \in Range(queryTerms(qArgs.query)) :
                   containsTerm(qCandidates[k], term)

-----------------------------------------------------------------------------
(* findResearchPaths over graphs with many links *)

\* the most papers of a graph with many links: 5 papers all joined to one
\* another have 10 paths of at most 3 edges between any two
MaxDenseNodes == 5

\* every pair of the n papers, or every pair but one
DensePairSets(n) ==
    LET all == { p \in (1..n) \X (1..n) : p[1] < p[2] }
    IN  { all } \cup { all \ {p} : p \in all }

DenseDataSets ==
    UNION { { [papers |-> [i \in 1..n |-> CatalogPaper(i, dBio)],
               graph  |-> buildGraph([i \in 1..n |-> CatalogPaper(i, dBio)],
                                     ConnectionsOf(n, pairs, salt))]
              : pairs \in DensePairSets(n), salt \in Salts } : n \in 2..MaxDenseNodes }

NextDensePaths ==
    \E startId \in 1..MaxDenseNodes, endId \in 1..MaxDenseNodes, maxHops \in 0..MaxHops :
        FindResearchPaths(startId, endId, maxHops)

\* the strength of the link that joins a and b
linkStrength(a, b) ==
    LET k == CHOOSE k \in 1..Len(graphData.links) :
                 { graphData.links[k].source, graphData.links[k].target } = { a, b }
    IN  graphData.links[k].strength

\* the sum of the strengths of the links along the node ids w
walkStrength(w) == SumSeq([k \in 1..(Len(w) - 1) |-> linkStrength(w[k], w[k + 1])])

\* C21: findResearchPaths returns at most 5 paths, ordered by the sum of the
\* strengths of the links each path follows, largest first; a path from
\* startId to endId of at most maxHops edges is left out only when 5 paths
\* are returned, and its sum is then no larger than that of any path
\* returned.
C21_StrongestPathsFirst ==
    (pathsCalled /\ pathArgs.startId /= pathArgs.endId) =>
        LET ids == [k \in 1..Len(paths) |-> pathIds(paths[k])]
            all == simplePaths(pathArgs.startId, pathArgs.endId, pathArgs.maxHops)
        IN  /\ Len(paths) <= 5
            /\ \A k \in 1..(Len(ids) - 1) : walkStrength(ids[k]) >= walkStrength(ids[k + 1])
            /\ \A w \in all :
                   w \notin Range(ids) =>
                       /\ Len(paths) = 5
                       /\ \A k \in 1..Len(ids) : walkStrength(w) <= walkStrength(ids[k])

\* more than 5 paths exist, 5 of different strengths are returned and a
\* weaker one is left out
C21_Witness ==
    /\ pathsCalled
    /\ pathArgs.startId /= pathArgs.endId
    /\ Len(paths) = maxPathsReturned
    /\ Cardinality(simplePaths(pathArgs.startId, pathArgs.endId, pathArgs.maxHops)) > 5
    /\ walkStrength(pathIds(paths[1])) > walkStrength(pathIds(paths[5]))
    /\ \E w \in simplePaths(pathArgs.startId, pathArgs.endId, pathArgs.maxHops) :
           walkStrength(w) < walkStrength(pathIds(paths[5]))

-----------------------------------------------------------------------------
(* The delay between the provider calls of extractConcepts *)

\* C22: in an extractConcepts run every provider call but the last is
\* followed by the delay of 1000 ms before the next call is made, whether
\* the call succeeded or failed; the last call is followed by no delay.
C22_DelayBetweenCalls ==
    /\ \A k \in 1..(Len(exEvents) - 1) :
           exEvents[k].kind = "call" =>
               /\ exEvents[k + 1].kind = "delay"
               /\ exEvents[k + 1].ms = 1000
    /\ (exPhase = "calling" /\ exEvents /= <<>>) =>
           exEvents[Len(exEvents)].kind = "delay"
    /\ (exPhase = "done" /\ exEvents /= <<>>) =>
           exEvents[Len(exEvents)].kind = "call"

-----------------------------------------------------------------------------
(* Provider calls that never answer *)

\* the text of the getEmbedding call the query is waiting for
awaitedText ==
    IF qEmbed.index = 0 THEN qArgs.query ELSE paperText(qEmbed.papers[qEmbed.index])

\* the provider call queryGraph awaits never settles: embeddings.create and
\* chat.completions.create are called without a timeout, and nothing else
\* resumes the query
QueryCallNeverSettles ==
    /\ qPhase \in {"embedding", "insights"}
    /\ qPhase = "embedding" => cacheKey(awaitedText) \notin DOMAIN embeddings
    /\ qPhase' = "suspended"
    /\ UNCHANGED <<qArgs, qEmbed, qCandidates, qExpanded, qFailures, qResult>>
    /\ UNCHANGED <<simVars, buildVars, ragVars, pathVars, extractVars, callVars>>

\* the chat completion processBatch awaits never settles
BatchNeverSettles ==
    /\ exPhase = "calling"
    /\ exPhase' = "suspended"
    /\ UNCHANGED <<exPapers, exIndex, analyzedPapers, exOutcomes, exEvents>>
    /\ UNCHANGED <<simVars, buildVars, ragVars, pathVars, queryVars, callVars>>

NextPending ==
    \/ NextQuery
    \/ NextExtract
    \/ QueryCallNeverSettles
    \/ BatchNeverSettles

\* C23: no queryGraph call and no extractConcepts run is left waiting for a
\* provider call that never answers: a timeout ends every provider call, so
\* each of them goes on to complete.
C23_NoCallWaitsForever ==
    /\ qPhase /= "suspended"
    /\ exPhase /= "suspended"

-----------------------------------------------------------------------------
(* setGraphData while a query is under way *)

\* the most papers of the graph data set while a query is under way
MaxSnapshotPapers == 2

SnapshotDataSets == DataSetsUpTo(MaxSnapshotPapers)

\* graphRAG.setGraphData(graphData, papers)
SetGraphData(d) ==
    /\ graphData' = d.graph
    /\ ragPapers' = d.papers
    /\ UNCHANGED <<openai, embeddings>>
    /\ UNCHANGED <<simVars, buildVars, pathVars, queryVars, extractVars, callVars>>

NextRebuild ==
    \/ NextQuery
    \/ \E d \in SnapshotDataSets : SetGraphData(d)

\* a result paper without the fields a query adds to its copy
asStored(paper) ==
    [f \in DOMAIN paper \ {"relevanceScore", "connectionReason"} |-> paper[f]]

\* C24: the result of a query is computed from one graph and paper
\* collection: there is one (graph, papers) pair from which the search
\* candidates, the expansion, the connections and the graphContext of the
\* result all come, also when setGraphData is called while the query waits.
C24_SingleSnapshot ==
    qPhase = "done" =>
        \E d \in SnapshotDataSets \cup { [graph |-> null, papers |-> <<>>] } :
            IF isFallback(qResult)
            THEN \A k \in 1..Len(qResult.results) :
                     asStored(qResult.results[k]) \in Range(d.papers)
            ELSE /\ \A k \in 1..Len(qCandidates) :
                        asStored(qCandidates[k]) \in Range(d.papers)
                 /\ qExpanded = IF qArgs.useGraphStructure
                                THEN expandWithGraphContext(qCandidates, d)
                                ELSE qCandidates
                 /\ qResult.connections = IF qArgs.includeConnections
                                          THEN findRelevantConnections(qExpanded, d)
                                          ELSE <<>>
                 /\ qResult.graphContext = getGraphContext(qExpanded, d)

-----------------------------------------------------------------------------
(* GraphBuilder.findIndirectConnections and getRecommendations *)

\* the decay of an indirect connection: * 0.7
indirectDecay == 700

\* current.strength * link.strength * 0.7
decayedStrength(strength, ofLink) ==
    (strength * ofLink * indirectDecay) \div 1000000

\* `indirect-${hops}hop`
indirectType(hops) ==
    <<"i", "n", "d", "i", "r", "e", "c", "t", "-">> \o toDecimal(hops) \o <<"h", "o", "p">>

directType == <<"d", "i", "r", "e", "c", "t">>

\* a search that marks nothing as visited
visitedNever(visited, nextNodeId) == visited

\* visited.add(nextNodeId)
visitedAdd(visited, nextNodeId) == visited \cup {nextNodeId}

\* the while loop of findIndirectConnections: s holds the queue, the visited
\* set, indirectConnections and the node ids put in the queue so far;
\* bfsLinks is the forEach over the links of current from the k-th on
RECURSIVE bfsQueue(_, _, _), bfsLinks(_, _, _, _, _)
bfsQueue(s, links, maxHops) ==
    IF s.queue = <<>> THEN s
    ELSE LET current == Head(s.queue)
             shifted == [s EXCEPT !.queue = Tail(s.queue)]
         IN  IF Len(current.path) >= maxHops
             THEN bfsQueue(shifted, links, maxHops)
             ELSE bfsQueue(bfsLinks(shifted, incidentLinks(links, current.nodeId), 1,
                                    current, maxHops),
                           links, maxHops)

bfsLinks(s, conns, k, current, maxHops) ==
    IF k > Len(conns) THEN s
    ELSE LET nextNodeId  == otherEnd(conns[k], current.nodeId)
             newPath     == Append(current.path, current.nodeId)
             newStrength == decayedStrength(current.strength, conns[k].strength)
             found == [nodeId |-> nextNodeId,
                       strength |-> newStrength,
                       type |-> indirectType(Len(newPath) + 1),
                       path |-> Append(newPath, nextNodeId),
                       sharedConcepts |-> conns[k].sharedConcepts]
             entry == [nodeId |-> nextNodeId, path |-> newPath, strength |-> newStrength]
         IN  IF nextNodeId \in s.visited
             THEN bfsLinks(s, conns, k + 1, current, maxHops)
             ELSE IF Len(newPath) = maxHops - 1
             THEN bfsLinks([s EXCEPT !.indirectConnections = Append(@, found),
                                     !.visited = visitedAdd(@, nextNodeId)],
                           conns, k + 1, current, maxHops)
             ELSE bfsLinks([s EXCEPT !.queue = Append(@, entry),
                                     !.queued = Append(@, nextNodeId),
                                     !.visited = visitedAdd(@, nextNodeId)],
                           conns, k + 1, current, maxHops)

\* the search of findIndirectConnections when it ends
indirectSearch(builtGraph, targetNodeId, maxHops) ==
    bfsQueue([queue |-> <<[nodeId |-> targetNodeId, path |-> <<>>, strength |-> 1000]>>,
              queued |-> <<targetNodeId>>,
              visited |-> {targetNodeId},
              indirectConnections |-> <<>>],
             builtGraph.links, maxHops)

findIndirectConnections(builtGraph, targetNodeId, maxHops) ==
    indirectSearch(builtGraph, targetNodeId, maxHops).indirectConnections

\* the links of the target as recommendations
directConnections(builtGraph, targetNodeId) ==
    LET conns == incidentLinks(builtGraph.links, targetNodeId)
    IN  [k \in 1..Len(conns) |->
            [nodeId |-> otherEnd(conns[k], targetNodeId),
             strength |-> conns[k].strength,
             type |-> directType,
             sharedConcepts |-> conns[k].sharedConcepts]]

\* allRecommendations.forEach into the Map uniqueRecommendations: the values
\* of the map in insertion order
RECURSIVE uniqueRecommendations(_)
uniqueRecommendations(recs) ==
    IF recs = <<>> THEN <<>>
    ELSE LET init == uniqueRecommendations(SubSeq(recs, 1, Len(recs) - 1))
             rec  == recs[Len(recs)]
             at   == { k \in 1..Len(init) : init[k].nodeId = rec.nodeId }
         IN  IF at = {} THEN Append(init, rec)
             ELSE LET k == CHOOSE k \in at : TRUE
                  IN  IF rec.strength > init[k].strength
                      THEN [init EXCEPT ![k] = rec] ELSE init

\* graphData.nodes.find(n => n.id === id), undefined as noPaper
findNode(nodes, id) == findPaper(nodes, id)

\* the 2 of findIndirectConnections(graphData, targetNodeId, 2)
recommendationHops == 2

getRecommendations(builtGraph, targetNodeId, maxRecommendations) ==
    IF findNode(builtGraph.nodes, targetNodeId) = noPaper THEN <<>>
    ELSE LET all    == directConnections(builtGraph, targetNodeId)
                       \o findIndirectConnections(builtGraph, targetNodeId,
                                                  recommendationHops)
             sorted == sliceTo(sortByStrengthDesc(uniqueRecommendations(all)),
                               maxRecommendations)
         IN  [k \in 1..Len(sorted) |->
                [f \in DOMAIN sorted[k] \cup {"node"} |->
                    IF f = "node" THEN findNode(builtGraph.nodes, sorted[k].nodeId)
                    ELSE sorted[k][f]]]

\* the largest maxHops findIndirectConnections is called with
MaxIndirectHops == 3

\* a graph buildGraph has returned
InitBuilt ==
    /\ buildPhase = "built"
    /\ \E n \in 0..MaxNodes : \E pairs \in PairSets(n) : \E salt \in Salts :
          /\ gbPapers = [i \in 1..n |-> CatalogPaper(i, dBio)]
          /\ gbConnections = ConnectionsOf(n, pairs, salt)
    /\ graph = buildGraph(gbPapers, gbConnections)

\* graphBuilder.findIndirectConnections(graph, targetNodeId, maxHops)
FindIndirectConnections(targetNodeId, maxHops) ==
    /\ buildPhase = "built"
    /\ lastCall = noCall
    /\ lastCall' = [op |-> "findIndirectConnections", targetNodeId |-> targetNodeId,
                    maxHops |-> maxHops]
    /\ lastReturn' = findIndirectConnections(graph, targetNodeId, maxHops)
    /\ callTrace' = indirectSearch(graph, targetNodeId, maxHops).queued
    /\ UNCHANGED <<simVars, buildVars, ragVars, pathVars, queryVars, extractVars>>

\* graphBuilder.getRecommendations(graph, targetNodeId, maxRecommendations);
\* callTrace keeps the indirect connections it found on the way
GetRecommendations(targetNodeId, maxRecommendations) ==
    /\ buildPhase = "built"
    /\ lastCall = noCall
    /\ lastCall' = [op |-> "getRecommendations", targetNodeId |-> targetNodeId,
                    maxRecommendations |-> maxRecommendations]
    /\ lastReturn' = getRecommendations(graph, targetNodeId, maxRecommendations)
    /\ callTrace' = IF findNode(graph.nodes, targetNodeId) = noPaper THEN <<>>
                    ELSE findIndirectConnections(graph, targetNodeId, recommendationHops)
    /\ UNCHANGED <<simVars, buildVars, ragVars, pathVars, queryVars, extractVars>>

NextBuilt ==
    \/ \E targetNodeId \in 1..MaxNodes, maxHops \in 0..MaxIndirectHops :
           FindIndirectConnections(targetNodeId, maxHops)
    \/ \E targetNodeId \in 1..MaxNodes, maxRecommendations \in {1, 10} :
           GetRecommendations(targetNodeId, maxRecommendations)

-----------------------------------------------------------------------------
(* Properties of findIndirectConnections *)

\* the built graph has a link between a and b
builtLinked(a, b) ==
    \E k \in 1..Len(graph.links) :
        { graph.links[k].source, graph.links[k].target } = { a, b }

\* the strength of the link of the built graph between a and b
builtLinkStrength(a, b) ==
    LET k == CHOOSE k \in 1..Len(graph.links) :
                 { graph.links[k].source, graph.links[k].target } = { a, b }
    IN  graph.links[k].strength

\* the node ids w follow links of the built graph from one to the next
isWalk(w) == \A k \in 1..(Len(w) - 1) : builtLinked(w[k], w[k + 1])

\* C25: a result of findIndirectConnections whose type is `indirect-Khop` is
\* reached from the target by a path of exactly K edges; the indirect
\* connections getRecommendations computes (maxHops = 2) are two edges away
\* from the target and are not its direct neighbours.
C25_IndirectHopCount ==
    /\ lastCall.op = "findIndirectConnections" =>
           \A k \in 1..Len(lastReturn) : \A hops \in 1..(MaxIndirectHops + 1) :
               lastReturn[k].type = indirectType(hops) =>
                   /\ isWalk(lastReturn[k].path)
                   /\ lastReturn[k].path[1] = lastCall.targetNodeId
                   /\ lastReturn[k].path[Len(lastReturn[k].path)] = lastReturn[k].nodeId
                   /\ Len(lastReturn[k].path) - 1 = hops
    /\ lastCall.op = "getRecommendations" =>
           \A k \in 1..Len(callTrace) :
               /\ ~builtLinked(lastCall.targetNodeId, callTrace[k].nodeId)
               /\ \E via \in 1..MaxNodes :
                      /\ builtLinked(lastCall.targetNodeId, via)
                      /\ builtLinked(via, callTrace[k].nodeId)

\* the product of (strength * 0.7) over the links along the node ids w
RECURSIVE decayedProduct(_)
decayedProduct(w) ==
    IF Len(w) <= 1 THEN 1000
    ELSE (decayedProduct(SubSeq(w, 1, Len(w) - 1))
              * builtLinkStrength(w[Len(w) - 1], w[Len(w)]) * 7) \div 10000

\* C26: every result of findIndirectConnections carries a path along links
\* of the graph from the start node to its node, and its strength is the
\* product of (link strength * 0.7) over the links of that path; the start
\* node is not among the results, and no node is put in the queue or among
\* the results more than once.
C26_DecayedStrengthVisitedOnce ==
    lastCall.op = "findIndirectConnections" =>
        /\ \A k \in 1..Len(lastReturn) :
               /\ isWalk(lastReturn[k].path)
               /\ lastReturn[k].path[1] = lastCall.targetNodeId
               /\ lastReturn[k].path[Len(lastReturn[k].path)] = lastReturn[k].nodeId
               /\ lastReturn[k].strength = decayedProduct(lastReturn[k].path)
               /\ lastReturn[k].nodeId /= lastCall.targetNodeId
               /\ \A m \in 1..Len(callTrace) : callTrace[m] /= lastReturn[k].nodeId
        /\ \A k, m \in 1..Len(lastReturn) :
               lastReturn[k].nodeId = lastReturn[m].nodeId => k = m
        /\ \A k, m \in 1..Len(callTrace) : callTrace[k] = callTrace[m] => k = m

\* a search over three links that returned a node two links away, reached
\* through one of the two neighbours of the start node it had put in its queue
C26_Witness ==
    /\ lastCall.op = "findIndirectConnections"
    /\ lastCall.maxHops = 3
    /\ Len(graph.links) = 3
    /\ Len(callTrace) = 3
    /\ \E k \in 1..Len(lastReturn) :
           /\ Len(lastReturn[k].path) = 3
           /\ lastReturn[k].strength < 1000
           /\ \E m \in 1..Len(callTrace) : callTrace[m] \notin Range(lastReturn[k].path)

-----------------------------------------------------------------------------
(* performClustering over papers of several domains *)

MaxClusterNodes == 6

ClusterDomains == { dBio, dMed, <<>> }

\* link shapes: no link, a chain, a chain from the second paper on, a star
\* around the first paper, a star around the last one
ClusterPairSets(n) ==
    { {},
      { p \in (1..n) \X (1..n) : p[2] = p[1] + 1 },
      { p \in (1..n) \X (1..n) : p[2] = p[1] + 1 /\ p[1] /= 1 },
      { p \in (1..n) \X (1..n) : p[1] = 1 /\ p[2] > 1 },
      { p \in (1..n) \X (1..n) : p[2] = n /\ p[1] < n } }

InitCluster ==
    /\ buildPhase = "input"
    /\ graph = noGraph
    /\ \E n \in 0..MaxClusterNodes : \E doms \in [1..n -> ClusterDomains] :
       \E pairs \in ClusterPairSets(n) :
          /\ gbPapers = [i \in 1..n |-> CatalogPaper(i, doms[i])]
          /\ gbConnections = ConnectionsOf(n, pairs, 0)

\* the position in the node list of the first node that is in S
firstNodeIn(S) ==
    CHOOSE i \in 1..Len(graph.nodes) :
        /\ graph.nodes[i].id \in S
        /\ \A j \in 1..(i - 1) : graph.nodes[j].id \notin S

\* how many components are discovered before the one whose first node is at
\* position start
discoveredBefore(start) ==
    Cardinality({ j \in 1..(start - 1) :
        firstNodeIn(ReachableFrom({graph.nodes[j].id}, graph.links)) = j })

\* the domain counted most often among members; among several of them the
\* one met first in order
mostCountedFirstMet(order) ==
    LET domainAt(i) == (CHOOSE n \in Range(graph.nodes) : n.id = order[i]).domain
        count(d)    == Cardinality({ i \in 1..Len(order) : domainAt(i) = d })
        firstMet(d) == CHOOSE i \in 1..Len(order) :
                           /\ domainAt(i) = d
                           /\ \A j \in 1..(i - 1) : domainAt(j) /= d
        present     == { domainAt(i) : i \in 1..Len(order) }
        maximal     == { d \in present : \A e \in present : count(e) <= count(d) }
    IN  CHOOSE d \in maximal : \A e \in maximal : firstMet(d) <= firstMet(e)

\* C27: the cluster label of a connected component is <domain>-<n>, n the
\* 0-based order in which the component is discovered when the node list is
\* scanned, domain the domain counted most often among the component's
\* members, and on a tie the one met first in traversal order.
C27_ClusterLabel ==
    buildPhase = "built" =>
        \A k \in 1..Len(graph.nodes) :
            LET members == ReachableFrom({graph.nodes[k].id}, graph.links)
                start   == firstNodeIn(members)
                order   == dfs(graph.nodes[start].id, graph.links, {}, <<>>)[2]
            IN  /\ Range(order) = members
                /\ graph.nodes[k].cluster =
                       mostCountedFirstMet(order) \o <<"-">>
                           \o toDecimal(discoveredBefore(start))

\* five papers form the component discovered second; its first paper has a
\* domain of its own and the two other domains tie
C27_Witness ==
    /\ buildPhase = "built"
    /\ \E k \in 1..Len(graph.nodes) :
          LET members == ReachableFrom({graph.nodes[k].id}, graph.links)
              start   == firstNodeIn(members)
              with(d) == { m \in 1..Len(graph.nodes) :
                             /\ graph.nodes[m].id \in members
                             /\ graph.nodes[m].domain = d }
          IN  /\ Cardinality(members) = 5
              /\ discoveredBefore(start) = 1
              /\ graph.nodes[start].domain = unknownDomain
              /\ Cardinality(with(dMed)) = 2
              /\ Cardinality(with(dBio)) = 2
              /\ graph.nodes[k].cluster = dMed \o <<"-", "1">>

-----------------------------------------------------------------------------
(* GraphRAG.getEmbedding called with texts of any length *)

MaxEmbeddingCalls == 3

\* a hundred characters that several texts begin with
sharedOpening == [i \in 1..100 |-> "x"]

\* short texts, and long ones that differ only after their hundredth character
EmbeddingTexts ==
    { wBone, wCell, sharedOpening,
      sharedOpening \o <<" ">> \o wBone, sharedOpening \o <<" ">> \o wCell }

\* getEmbedding(text); ok: the provider answers. callTrace keeps every call
\* with what it resolved with
GetEmbedding(text, ok) ==
    /\ Len(callTrace) < MaxEmbeddingCalls
    /\ LET value == IF ~openai THEN noEmbedding
                    ELSE getEmbedding(embeddings, text, ok)
           hit   == openai /\ cacheKey(text) \in DOMAIN embeddings
       IN  /\ lastCall' = [op |-> "getEmbedding", text |-> text]
           /\ lastReturn' = value
           /\ callTrace' = Append(callTrace,
                  [text |-> text, hit |-> hit, value |-> value])
           /\ embeddings' = IF ~openai THEN embeddings
                            ELSE cacheAfter(embeddings, text, ok)
    /\ UNCHANGED <<openai, graphData, ragPapers>>
    /\ UNCHANGED <<simVars, buildVars, pathVars, queryVars, extractVars>>

NextEmbedding == \E text \in EmbeddingTexts : \E ok \in BOOLEAN : GetEmbedding(text, ok)

InitEmbedding ==
    /\ openai \in BOOLEAN
    /\ FreshRag

\* C28: getEmbedding(text) returns the provider's embedding of that same
\* text: whatever calls were made before, a call that resolves with a vector
\* resolves with the vector of its own text, and every cached vector is the
\* vector of a text that has the key and was asked for.
C28_EmbeddingOfSameText ==
    /\ \A k \in 1..Len(callTrace) :
          callTrace[k].value /= noEmbedding
              => callTrace[k].value = providerEmbedding(callTrace[k].text)
    /\ \A key \in DOMAIN embeddings :
          \A k \in 1..Len(callTrace) :
              (cacheKey(callTrace[k].text) = key /\ callTrace[k].value /= noEmbedding)
                  => embeddings[key] = providerEmbedding(callTrace[k].text)

-----------------------------------------------------------------------------
(* The operations that only read the graph and the papers *)

\* an array is one the instance holds (this.papers) or a new one
thisPapers == "this.papers"
newArray   == "new array"

\* filtering that hands back the array it was given
sameArray(array) == array

\* Array.prototype.filter returns a new array, whatever array it is called on
filterResult(array) == newArray

\* the array this.papers holds after papers.push and papers.sort were applied
\* to the array `array` and left items in it
heldAfter(array, held, items) == IF array = thisPapers THEN items ELSE held

\* the concept counts of exploreConceptNeighborhood, largest first
relatedConceptsOf(relatedPapers, concept) ==
    LET others == SelectSeq(flatten([k \in 1..Len(relatedPapers) |-> relatedPapers[k].concepts]),
                            LAMBDA c : toLowerCase(c) /= toLowerCase(concept))
        keys   == sliceTo(byCountDesc(others), 10)
    IN  [i \in 1..Len(keys) |-> [concept |-> keys[i], count |-> countOf(keys[i], others)]]

\* this.papers.filter(paper => paper.concepts?.some(...))
relatedPapersOf(papers, concept) ==
    SelectSeq(papers, LAMBDA paper :
        \E k \in 1..Len(paper.concepts) :
            includes(toLowerCase(paper.concepts[k]), toLowerCase(concept)))

\* relatedPapers after the call of expandWithGraphContext, if there is one
expandedNeighborhood(data, concept, depth) ==
    IF depth > 1 THEN expandWithGraphContext(relatedPapersOf(data.papers, concept), data)
    ELSE relatedPapersOf(data.papers, concept)

\* exploreConceptNeighborhood(concept, depth) without a provider, so that
\* generateInsights answers at once
exploreConceptNeighborhood(data, concept, depth) ==
    LET relatedPapers  == relatedPapersOf(data.papers, concept)
        expandedPapers == expandedNeighborhood(data, concept, depth)
    IN  IF relatedPapers = <<>>
        THEN [papers |-> <<>>, concepts |-> <<>>, insights |-> null]
        ELSE [papers |-> sliceTo(expandedPapers, 20),
              concepts |-> relatedConceptsOf(relatedPapers, concept),
              insights |-> generateBasicInsights(expandedPapers)]

\* graphBuilder.getClusterAnalysis(graphData)
getClusterAnalysis(builtGraph) ==
    LET nodes    == builtGraph.nodes
        clusters == uniqueInOrder([k \in 1..Len(nodes) |-> nodes[k].cluster])
        statsOf(cluster) ==
            LET members == SelectSeq(nodes, LAMBDA node : node.cluster = cluster)
            IN  [name |-> cluster,
                 nodes |-> members,
                 concepts |-> uniqueInOrder(
                     flatten([k \in 1..Len(members) |-> members[k].concepts])),
                 avgCentrality |->
                     SumSeq([k \in 1..Len(members) |-> members[k].centrality])
                         \div Len(members),
                 totalDegree |-> SumSeq([k \in 1..Len(members) |-> members[k].degree]),
                 size |-> Len(members)]
        stats    == [i \in 1..Len(clusters) |-> statsOf(clusters[i])]
    IN  sortDescByKey(stats, [i \in 1..Len(stats) |-> stats[i].size])

MaxFramePapers == 3

FrameDataSets == DataSetsUpTo(MaxFramePapers)

ExploredConcepts == { wBone, wCell, wLoss }

\* no call has been made yet
NoCallYet == qPhase = "idle" /\ pathPhase = "idle" /\ lastCall = noCall

\* graphRAG.exploreConceptNeighborhood(concept, depth)
ExploreConceptNeighborhood(concept, depth) ==
    /\ NoCallYet
    /\ lastCall' = [op |-> "exploreConceptNeighborhood", concept |-> concept,
                    depth |-> depth]
    /\ lastReturn' = exploreConceptNeighborhood(currentData, concept, depth)
    /\ callTrace' = <<>>
    /\ ragPapers' =
           IF relatedPapersOf(ragPapers, concept) /= <<>> /\ depth > 1 /\ graphData /= null
           THEN heldAfter(filterResult(thisPapers), ragPapers,
                          expandedNeighborhood(currentData, concept, depth))
           ELSE ragPapers
    /\ UNCHANGED <<openai, graphData, embeddings>>
    /\ UNCHANGED <<simVars, buildVars, pathVars, queryVars, extractVars>>

\* graphBuilder.getRecommendations(graphData, targetNodeId, maxRecommendations)
\* on the graph the instance holds
RecommendFromGraphData(targetNodeId, maxRecommendations) ==
    /\ NoCallYet
    /\ graphData /= null
    /\ lastCall' = [op |-> "getRecommendations", targetNodeId |-> targetNodeId,
                    maxRecommendations |-> maxRecommendations]
    /\ lastReturn' = getRecommendations(graphData, targetNodeId, maxRecommendations)
    /\ callTrace' = <<>>
    /\ UNCHANGED <<simVars, buildVars, ragVars, pathVars, queryVars, extractVars>>

\* graphBuilder.getClusterAnalysis(graphData) on the graph the instance holds
GetClusterAnalysis ==
    /\ NoCallYet
    /\ graphData /= null
    /\ lastCall' = [op |-> "getClusterAnalysis"]
    /\ lastReturn' = getClusterAnalysis(graphData)
    /\ callTrace' = <<>>
    /\ UNCHANGED <<simVars, buildVars, ragVars, pathVars, queryVars, extractVars>>

NextFrame ==
    \/ \E query \in Queries, options \in QueryOptions :
           NoCallYet /\ StartQuery(query, options)
    \/ \E concept \in ExploredConcepts, depth \in {1, 2} :
           ExploreConceptNeighborhood(concept, depth)
    \/ \E startId \in 1..MaxNodes, endId \in 1..MaxNodes, maxHops \in 0..MaxHops :
           NoCallYet /\ FindResearchPaths(startId, endId, maxHops)
    \/ \E targetNodeId \in 1..MaxNodes, maxRecommendations \in {1, 10} :
           RecommendFromGraphData(targetNodeId, maxRecommendations)
    \/ GetClusterAnalysis

derivedFields == { "relevanceScore", "connectionReason" }

\* C29: queryGraph, exploreConceptNeighborhood, findResearchPaths,
\* getRecommendations and getClusterAnalysis leave the graph (nodes, links,
\* their order and fields) and the analyzed papers as they were, and no
\* stored paper or node gets a relevanceScore or a connectionReason: these
\* are on the copies in the result only.
C29_ReadOnlyOperations ==
    [][ /\ ragPapers' = ragPapers
        /\ graphData' = graphData
        /\ graph' = graph
        /\ \A k \in 1..Len(ragPapers') : DOMAIN ragPapers'[k] \cap derivedFields = {}
        /\ graphData' /= null =>
              \A k \in 1..Len(graphData'.nodes) :
                  DOMAIN graphData'.nodes[k] \cap derivedFields = {} ]_vars

\* exploreConceptNeighborhood has returned the papers of a concept together
\* with a copy of a connected paper that carries the derived fields
C29_Witness ==
    /\ lastCall.op = "exploreConceptNeighborhood"
    /\ lastCall.depth = 2
    /\ \E k \in 1..Len(lastReturn.papers) :
          /\ derivedFields \subseteq DOMAIN lastReturn.papers[k]
          /\ \E m \in 1..Len(ragPapers) : ragPapers[m].id = lastReturn.papers[k].id
    /\ \E k \in 1..Len(lastReturn.papers) : lastReturn.papers[k] \in Range(ragPapers)

-----------------------------------------------------------------------------
(* The results sequence of a query result *)

\* C30: the papers of a collection have pairwise distinct ids; the results
\* of every query result are at most maxResults papers, no paper id is there
\* twice, and the relevanceScore never increases along them, whether the
\* graph expansion ran or not.
C30_ResultsBoundedDistinctOrdered ==
    (/\ qPhase = "done"
     /\ \A i, j \in 1..Len(ragPapers) : i /= j => ragPapers[i].id /= ragPapers[j].id) =>
        LET results == qResult.results
        IN  /\ Len(results) <= qArgs.maxResults
            /\ \A i, j \in 1..Len(results) : i /= j => results[i].id /= results[j].id
            /\ \A i \in 1..(Len(results) - 1) :
                  results[i].relevanceScore >= results[i + 1].relevanceScore

\* a paper the expansion added stands before a paper the search found
C30_Witness ==
    /\ qPhase = "done"
    /\ qArgs.useGraphStructure
    /\ Len(qResult.results) = 3
    /\ "connectionReason" \in DOMAIN qResult.results[2]
    /\ "connectionReason" \notin DOMAIN qResult.results[3]
    /\ qResult.results[2].relevanceScore > qResult.results[3].relevanceScore

-----------------------------------------------------------------------------
(* Specifications *)

\* the analyzers alone: papers in, connections and similarities out
InitSimSpec ==
    /\ InitSim /\ IdleBuild /\ IdlePaths /\ IdleQuery /\ IdleCalls /\ IdleExtract
    /\ openai = FALSE /\ FreshRag

SpecSim == InitSimSpec /\ [][NextSim]_vars

\* findConnections over paper lists long enough to reach the caps
InitManySpec ==
    /\ InitMany /\ IdleBuild /\ IdlePaths /\ IdleQuery /\ IdleCalls /\ IdleExtract
    /\ openai = FALSE /\ FreshRag

SpecMany == InitManySpec /\ [][NextMany]_vars

\* the graph builder alone
InitBuildSpec ==
    /\ IdleSim /\ InitBuild /\ IdlePaths /\ IdleQuery /\ IdleCalls /\ IdleExtract
    /\ openai = FALSE /\ FreshRag

SpecBuild == InitBuildSpec /\ [][NextBuild]_vars

\* the graph builder on papers of several domains
InitClusterSpec ==
    /\ IdleSim /\ InitCluster /\ IdlePaths /\ IdleQuery /\ IdleCalls /\ IdleExtract
    /\ openai = FALSE /\ FreshRag

SpecCluster == InitClusterSpec /\ [][NextBuild]_vars

\* calls of getEmbedding on a new GraphRAG instance
InitEmbeddingSpec ==
    /\ IdleSim /\ IdleBuild /\ IdlePaths /\ IdleQuery /\ IdleCalls /\ IdleExtract
    /\ InitEmbedding

SpecEmbedding == InitEmbeddingSpec /\ [][NextEmbedding]_vars

\* one call of an operation that reads the graph and the papers
InitFrameSpec ==
    /\ IdleSim /\ IdleBuild /\ IdlePaths /\ IdleQuery /\ IdleCalls /\ IdleExtract
    /\ openai = FALSE /\ InitRagData(FrameDataSets)

SpecFrame == InitFrameSpec /\ [][NextFrame]_vars

\* one call of the graph builder's functions on a graph it has built
InitBuiltSpec ==
    /\ IdleSim /\ InitBuilt /\ IdlePaths /\ IdleQuery /\ IdleCalls /\ IdleExtract
    /\ openai = FALSE /\ FreshRag

SpecBuilt == InitBuiltSpec /\ [][NextBuilt]_vars

\* path search over the graph data of a GraphRAG instance
InitPathsSpec ==
    /\ IdleSim /\ IdleBuild /\ IdlePaths /\ IdleQuery /\ IdleCalls /\ IdleExtract
    /\ openai = FALSE /\ InitRagData(DataSets)

SpecPaths == InitPathsSpec /\ [][NextPaths]_vars

\* path search over graphs with enough links for more than 5 paths
InitDensePathsSpec ==
    /\ IdleSim /\ IdleBuild /\ IdlePaths /\ IdleQuery /\ IdleCalls /\ IdleExtract
    /\ openai = FALSE /\ InitRagData(DenseDataSets)

SpecDensePaths == InitDensePathsSpec /\ [][NextDensePaths]_vars

\* one query against a GraphRAG instance, with or without an OpenAI client
InitQuerySpec ==
    /\ IdleSim /\ IdleBuild /\ IdlePaths /\ IdleQuery /\ IdleCalls /\ IdleExtract
    /\ openai \in BOOLEAN
    /\ InitRagData(DataSetsUpTo(MaxQueryPapers))

SpecQuery == InitQuerySpec /\ [][NextQuery]_vars

\* one query against a GraphRAG instance whose graph data is set anew at any
\* time, also while the query waits for a provider
InitRebuildSpec ==
    /\ IdleSim /\ IdleBuild /\ IdlePaths /\ IdleQuery /\ IdleCalls /\ IdleExtract
    /\ openai \in BOOLEAN
    /\ InitRagData(SnapshotDataSets)

SpecRebuild == InitRebuildSpec /\ [][NextRebuild]_vars

\* one extractConcepts run, every provider call answering or failing
InitExtractSpec ==
    /\ IdleSim /\ IdleBuild /\ IdlePaths /\ IdleQuery /\ IdleCalls
    /\ openai = FALSE /\ FreshRag
    /\ InitExtract

SpecExtract == InitExtractSpec /\ [][NextExtract]_vars

\* a query or an extractConcepts run whose provider calls answer, fail or
\* stay without an answer
InitPendingSpec ==
    /\ IdleSim /\ IdleBuild /\ IdlePaths /\ IdleQuery /\ IdleCalls
    /\ \/ /\ openai \in BOOLEAN
          /\ InitRagData(DataSetsUpTo(MaxQueryPapers))
          /\ IdleExtract
       \/ /\ openai = FALSE
          /\ FreshRag
          /\ InitExtract

SpecPending == InitPendingSpec /\ [][NextPending]_vars

====
